---- MODULE Spec2Model ----
(***************************************************************************)
(* LeetCode-to-Notion browser extension: the popup's duplicate detection,  *)
(* its local cache in chrome.storage.local, the background verification of *)
(* a cached page and the save path (create / update) against the Notion    *)
(* REST API.                                                               *)
(*                                                                         *)
(* JavaScript is single-threaded: an async function runs without           *)
(* interruption up to its next `await`.  Every action below is one such    *)
(* run: it starts where a promise the function awaited settles and ends at *)
(* the function's next await (or its return).  The settled value of a      *)
(* fetch is drawn from the outcomes the network and the server can         *)
(* produce.  A chrome.storage.local write takes effect when it is issued;  *)
(* a read takes its value when it completes.  Storage writes are taken to  *)
(* succeed; storage reads may reject.                                      *)
(***************************************************************************)
EXTENDS Integers, Sequences, FiniteSets, TLC

(***************************************************************************)
(* Bounds of the model.                                                    *)
(***************************************************************************)
\* problem numbers are 1..MaxNumber; 0 stands for "no number extracted"
MaxNumber == 1
\* Notion page ids are 1..MaxPages; 0 stands for null
MaxPages == 2
\* the clock advances MaxTicks times
MaxTicks == 2
\* concurrent invocations of the save click handler
MaxSaves == 1

\* one step of the clock, in ms: one step stays within the cache's time to
\* live, two steps exceed it
TickMs == 40 * 60 * 1000
MaxUnitTicks == 4
UnitTickMs == 30 * 60 * 1000
\* SpecFind: the longest schema findProperty is given
MaxProps == 3
\* SpecChunk: the source codes are those of at most MaxShort characters and
\* those within Margin characters of one and of two full runs
MaxShort == 40
Margin == 10

\* popup.js: const CACHE_TTL = 60 * 60 * 1000
CACHE_TTL == 60 * 60 * 1000

Numbers == 1..MaxNumber
PageIds == 1..MaxPages
Saves == 1..MaxSaves
NoPage == 0
NoUrl == <<>>
\* the url the remote API reports for page p (page.url)
PageUrl(p) == <<p>>

(***************************************************************************)
(* Strings are sequences of one-character strings, so that toLowerCase and *)
(* includes are computed and not assumed.                                  *)
(***************************************************************************)
UpperAlpha == <<"A","B","C","D","E","F","G","H","I","J","K","L","M",
                "N","O","P","Q","R","S","T","U","V","W","X","Y","Z">>
LowerAlpha == <<"a","b","c","d","e","f","g","h","i","j","k","l","m",
                "n","o","p","q","r","s","t","u","v","w","x","y","z">>

toLowerCaseChar(c) ==
  IF \E i \in 1..26 : UpperAlpha[i] = c
  THEN LowerAlpha[CHOOSE i \in 1..26 : UpperAlpha[i] = c]
  ELSE c

toLowerCase(s) == [i \in 1..Len(s) |-> toLowerCaseChar(s[i])]

\* String.prototype.includes
includes(s, t) ==
  \E k \in 0..(Len(s) - Len(t)) : \A j \in 1..Len(t) : s[k + j] = t[j]

(***************************************************************************)
(* The remote database schema: the properties in declaration order, each   *)
(* a name and a type.                                                      *)
(***************************************************************************)
NoProp == [name |-> <<>>, type |-> "none"]

RECURSIVE findPropertyFrom(_, _, _, _)
findPropertyFrom(properties, aliases, allowedTypes, i) ==
  IF i > Len(properties) THEN NoProp
  ELSE LET name == properties[i].name
           isMatch == \E a \in 1..Len(aliases) :
                        \/ toLowerCase(name) = toLowerCase(aliases[a])
                        \/ includes(toLowerCase(name), toLowerCase(aliases[a]))
       IN IF isMatch /\ (allowedTypes = {} \/ properties[i].type \in allowedTypes)
          THEN [name |-> name, type |-> properties[i].type]
          ELSE findPropertyFrom(properties, aliases, allowedTypes, i + 1)

\* findProperty without the test of allowedTypes
findProperty_anyType(properties, aliases, allowedTypes) ==
  findPropertyFrom(properties, aliases, {}, 1)

\* findProperty(properties, aliases, allowedTypes = [])
findProperty(properties, aliases, allowedTypes) ==
  findPropertyFrom(properties, aliases, allowedTypes, 1)

\* the alias lists of the callers (ASCII aliases; the localized aliases
\* behave the same way and match none of the schemas below)
NumberAliases == << <<"N","u","m","b","e","r">>,
                    <<"P","r","o","b","l","e","m"," ","N","u","m","b","e","r">>,
                    <<"I","D">>,
                    <<"#">> >>
TitleAliases == << <<"P","r","o","b","l","e","m"," ","N","a","m","e">>,
                   <<"N","a","m","e">>,
                   <<"T","i","t","l","e">> >>
NeededHintAliases == << <<"N","e","e","d","e","d"," ","H","i","n","t">>,
                        <<"H","i","n","t">>,
                        <<"D","i","d"," ","I"," ","n","e","e","d"," ","a"," ","h","i","n","t","?">> >>
CanRedoAliases == << <<"C","a","n"," ","R","e","d","o">>,
                     <<"R","e","d","o">>,
                     <<"C","o","u","l","d"," ","I"," ","r","e","d","o"," ","i","t"," ","i","n"," ","a"," ","w","e","e","k">> >>

\* the schemas the user's database goes through in this model
SchemaFull ==
  << [name |-> <<"N","a","m","e">>, type |-> "title"],
     [name |-> <<"N","u","m","b","e","r">>, type |-> "number"],
     [name |-> <<"N","e","e","d","e","d"," ","h","i","n","t">>, type |-> "checkbox"],
     [name |-> <<"D","o","n","e">>, type |-> "checkbox"],
     [name |-> <<"R","e","d","o">>, type |-> "checkbox"] >>
\* a property named Number that is not number-typed, a property named Hints
\* that is no checkbox, and no checkbox for either flag
SchemaNoNumber ==
  << [name |-> <<"T","a","s","k">>, type |-> "title"],
     [name |-> <<"N","u","m","b","e","r">>, type |-> "rich_text"],
     [name |-> <<"H","i","n","t","s">>, type |-> "rich_text"],
     [name |-> <<"D","o","n","e">>, type |-> "checkbox"] >>
SchemaEmpty == << >>
Schemas == {SchemaFull, SchemaNoNumber, SchemaEmpty}

\* findPageInNotion: the Number property
numberPropOf(dbProperties) == findProperty(dbProperties, NumberAliases, {"number"})

\* first element of a sequence of properties with the given type, or NoProp
RECURSIVE findByType(_, _, _)
findByType(properties, type, i) ==
  IF i > Len(properties) THEN NoProp
  ELSE IF properties[i].type = type
       THEN [name |-> properties[i].name, type |-> type]
       ELSE findByType(properties, type, i + 1)

\* titlePropOf without the fallback to the first title-typed property
titlePropOf_aliasOnly(dbProperties) ==
  findProperty(dbProperties, TitleAliases, {"title"})

\* buildNotionProperties: the title property (required)
titlePropOf(dbProperties) ==
  LET byAlias == findProperty(dbProperties, TitleAliases, {"title"})
  IN IF byAlias # NoProp THEN byAlias ELSE findByType(dbProperties, "title", 1)

\* buildCheckboxUpdateProperties without ["checkbox"] as allowedTypes
buildCheckboxUpdateProperties_anyType(dbProperties) ==
  { p.name : p \in { findProperty(dbProperties, NeededHintAliases, {}),
                      findProperty(dbProperties, CanRedoAliases, {}) }
                   \ {NoProp} }

\* buildCheckboxUpdateProperties: the names of the properties in the patch
buildCheckboxUpdateProperties(dbProperties) ==
  { p.name : p \in { findProperty(dbProperties, NeededHintAliases, {"checkbox"}),
                      findProperty(dbProperties, CanRedoAliases, {"checkbox"}) }
                   \ {NoProp} }

\* what the callers resolve in each schema (each resolved once)
Resolved ==
  [ s \in Schemas |-> [ number |-> numberPropOf(s),
                        title |-> titlePropOf(s),
                        checkboxes |-> buildCheckboxUpdateProperties(s) ] ]

(***************************************************************************)
(* The cache in chrome.storage.local: key problem_<number>, value          *)
(* {pageId, url, timestamp}.  A store maps each number to its entry or to  *)
(* NoEntry.                                                                *)
(***************************************************************************)
NoEntry == [pageId |-> NoPage, url |-> NoUrl, timestamp |-> -1]

\* getCachedPage with `age >= CACHE_TTL` as its test of expiry
getCachedPage_atTtl(cache, problemNumber, t) ==
  LET cached == cache[problemNumber]
  IN IF cached = NoEntry THEN NoEntry
     ELSE IF t - cached.timestamp >= CACHE_TTL THEN NoEntry
     ELSE cached

\* getCachedPage: the value returned for the cache and the clock
getCachedPage(cache, problemNumber, t) ==
  LET cached == cache[problemNumber]
  IN IF cached = NoEntry THEN NoEntry
     ELSE IF t - cached.timestamp > CACHE_TTL THEN NoEntry
     ELSE cached

\* getCachedPageExpires without the remove of the expired key
getCachedPageExpires_never(cache, problemNumber, t) == FALSE

\* getCachedPage: whether it removes the key
getCachedPageExpires(cache, problemNumber, t) ==
  /\ cache[problemNumber] # NoEntry
  /\ t - cache[problemNumber].timestamp > CACHE_TTL

\* cachePage: the cache after the write
cachePage(cache, problemNumber, pageId, url, t) ==
  [cache EXCEPT ![problemNumber] = [pageId |-> pageId, url |-> url, timestamp |-> t]]

\* chrome.storage.local.remove(`problem_${problemNumber}`)
removeKey(cache, problemNumber) ==
  [cache EXCEPT ![problemNumber] = NoEntry]

(***************************************************************************)
(* State.                                                                  *)
(***************************************************************************)
VARIABLES
  now,            \* Date.now(), in ms since the model's start
  store,          \* chrome.storage.local: the cache entry of each number
  configured,     \* chrome.storage.local holds notionToken and databaseId
  remote,         \* the Notion database: page id -> [number, status], the
                  \* status "unused", "live" or "gone"
  open,           \* a popup (one LeetCodeNotionApp) is alive
  problemData,    \* this.problemData: NoData, or the extracted number (0: none)
  notionPageId,   \* this.notionPageId
  notionPageUrl,  \* this.notionPageUrl
  badge,          \* the "already saved" badge is shown
  statusMsg,      \* the status message: "none", "error" or "success"
  errorText,      \* which error the status message shows ("none": no error)
  checkPc,        \* where init / checkLeetCodePage / checkForDuplicate stands
  checkCalls,     \* the reads and remote calls this duplicate check has issued
  checkSeen,      \* what the last read or fetch of this check settled in
  checkSchema,    \* what the schema fetch of this check settled in
  valPc,          \* where validateCacheInBackground stands
  valPageId,      \* its pageId argument
  valSeen,        \* what its GET /pages/{id} came back with
  savePc,         \* where each invocation of saveProblem stands
  saveLocal,      \* its locals: the page id it holds, the number in its payload
  saveSeen,       \* what the last schema fetch of a save settled in
  saveResult,     \* how the invocation of saveProblem that returned last ended
  unitCall,       \* unit specifications: the last call made, with its inputs
  unitRet,        \* unit specifications: what that call returned
  unitPut         \* SpecCache: what cachePage was last given for each number

vars == << now, store, configured, remote, open, problemData,
           notionPageId, notionPageUrl, badge, statusMsg, errorText, checkPc,
           checkCalls,
           checkSeen, checkSchema, valPc, valPageId, valSeen, savePc, saveLocal, saveSeen,
           saveResult,
           unitCall, unitRet, unitPut >>

envVars == << now, configured, remote >>
checkVars == << checkPc, checkCalls, checkSeen, checkSchema >>
valVars == << valPc, valPageId, valSeen >>
saveVars == << savePc, saveLocal, saveSeen, saveResult >>
uiVars == << notionPageId, notionPageUrl, badge, statusMsg, errorText >>
unitVars == << unitCall, unitRet, unitPut >>
appVars == << open, problemData, uiVars, checkVars, valVars, saveVars >>

NoData == -1
NoLocal == [page |-> NoPage, num |-> 0, title |-> <<>>, patch |-> {},
            found |-> FALSE]
EmptyStore == [n \in Numbers |-> NoEntry]
NoRecord == [number |-> 0, status |-> "unused"]
\* a settled read or fetch: o its outcome ("none": nothing settled yet;
\* "noprop": a schema without a number property), first and view the first
\* result of a query and how the API shows it
Seen(o, first, view) == [o |-> o, first |-> first, view |-> view]
NoneSeen == Seen("none", NoPage, "deleted")
\* a settled GET /databases/{id}: o its outcome, schema the db.properties of
\* a success
SchemaSeen(o, schema) == [o |-> o, schema |-> IF o = "ok" THEN schema ELSE SchemaEmpty]
NoSchemaSeen == SchemaSeen("none", SchemaEmpty)

\* a fetch settles in a rejection (network error), a non-success status or a
\* success status
FetchOutcomes == {"reject", "notok", "ok"}

\* how the API shows a page: live, or gone in one of three ways (archived:
\* true, in_trash: true, or not there at all: 404 on GET, no query result)
GoneViews == {"archived", "trashed", "deleted"}
Views(p) == IF remote[p].status = "live" THEN {"live"}
            ELSE IF remote[p].status = "gone" THEN GoneViews
            ELSE {"deleted"}

\* the state a closed popup leaves: nothing of the app survives
Closed ==
  /\ open' = FALSE
  /\ problemData' = NoData
  /\ notionPageId' = NoPage
  /\ notionPageUrl' = NoUrl
  /\ badge' = FALSE
  /\ statusMsg' = "none"
  /\ errorText' = "none"
  /\ checkPc' = "closed"
  /\ checkCalls' = {}
  /\ checkSeen' = NoneSeen
  /\ checkSchema' = NoSchemaSeen
  /\ valPc' = "idle"
  /\ valPageId' = NoPage
  /\ valSeen' = "none"
  /\ savePc' = [i \in Saves |-> "idle"]
  /\ saveLocal' = [i \in Saves |-> NoLocal]
  /\ saveSeen' = NoSchemaSeen
  /\ saveResult' = "none"

\* the states the program starts in: a fresh install (empty store), a
\* database that is empty or already holds a live record of problem 1
InitRemote ==
  { [p \in PageIds |-> NoRecord],
    [p \in PageIds |-> IF p = 1 THEN [number |-> 1, status |-> "live"] ELSE NoRecord] }

\* the popup's variables while no popup is open
AppClosed ==
  /\ open = FALSE
  /\ problemData = NoData
  /\ notionPageId = NoPage
  /\ notionPageUrl = NoUrl
  /\ badge = FALSE
  /\ statusMsg = "none"
  /\ errorText = "none"
  /\ checkPc = "closed"
  /\ checkCalls = {}
  /\ checkSeen = NoneSeen
  /\ checkSchema = NoSchemaSeen
  /\ valPc = "idle"
  /\ valPageId = NoPage
  /\ valSeen = "none"
  /\ savePc = [i \in Saves |-> "idle"]
  /\ saveLocal = [i \in Saves |-> NoLocal]
  /\ saveSeen = NoSchemaSeen
  /\ saveResult = "none"

\* the unit specifications' variables before any call
NoCall == [op |-> "none"]
UnitIdle ==
  /\ unitCall = NoCall
  /\ unitRet = NoCall
  /\ unitPut = [n \in Numbers |-> NoEntry]

Init ==
  /\ now = 0
  /\ store = EmptyStore
  /\ configured \in BOOLEAN
  /\ remote \in InitRemote
  /\ AppClosed
  /\ UnitIdle

(***************************************************************************)
(* The environment: the clock, the user's edits in Notion, the options     *)
(* page.  The database's properties are the user's to edit at any time:    *)
(* every GET /databases/{id} answers with any of Schemas.  The options     *)
(* page is used while no popup is open (a popup closes when it loses the   *)
(* focus).                                                                 *)
(***************************************************************************)
Tick ==
  /\ now < MaxTicks * TickMs
  /\ now' = now + TickMs
  /\ UNCHANGED << store, configured, remote, open, problemData >>
  /\ UNCHANGED << uiVars, checkVars, valVars, saveVars >>
  /\ UNCHANGED unitVars

\* the user archives, trashes or permanently deletes a page in Notion
RemoteRemove(p) ==
  /\ remote[p].status = "live"
  /\ remote' = [remote EXCEPT ![p].status = "gone"]
  /\ UNCHANGED << now, store, configured, open, problemData >>
  /\ UNCHANGED << uiVars, checkVars, valVars, saveVars >>
  /\ UNCHANGED unitVars

\* options.js saveSettings with a token and a database id it accepts
saveSettings ==
  /\ ~open
  /\ ~configured
  /\ configured' = TRUE
  /\ UNCHANGED << now, store, remote, open, problemData >>
  /\ UNCHANGED << uiVars, checkVars, valVars, saveVars >>
  /\ UNCHANGED unitVars

\* options.js clearSettings: chrome.storage.local.clear()
clearSettings ==
  /\ ~open
  /\ configured \/ store # EmptyStore
  /\ configured' = FALSE
  /\ store' = EmptyStore
  /\ UNCHANGED << now, remote, open, problemData >>
  /\ UNCHANGED << uiVars, checkVars, valVars, saveVars >>
  /\ UNCHANGED unitVars

(***************************************************************************)
(* The popup: construction and close.                                      *)
(***************************************************************************)
\* new LeetCodeNotionApp(): the constructor, init() up to the first await of
\* checkLeetCodePage
PopupOpen ==
  /\ ~open
  /\ open' = TRUE
  /\ checkPc' = "extract"
  /\ UNCHANGED << store, problemData, checkCalls, checkSeen, checkSchema >>
  /\ UNCHANGED << envVars, uiVars, valVars, saveVars >>
  /\ UNCHANGED unitVars

\* the popup closes: its pending promises are dropped with it
PopupClose ==
  /\ open
  /\ Closed
  /\ UNCHANGED << store >>
  /\ UNCHANGED envVars
  /\ UNCHANGED unitVars

(***************************************************************************)
(* init -> checkLeetCodePage -> checkForDuplicate.                         *)
(***************************************************************************)
\* checkForDuplicate_start without the test of the number
checkForDuplicate_start_noTest(n) ==
  /\ checkPc' = "settings"
  /\ checkCalls' = checkCalls \cup {"settings"}
  /\ UNCHANGED badge

\* checkForDuplicate up to its first await, for the record's number n
checkForDuplicate_start(n) ==
  IF n = 0
  THEN \* no problem number: the duplicate check is skipped
       /\ checkPc' = "unknown"
       /\ badge' = FALSE
       /\ UNCHANGED checkCalls
  ELSE \* await this.loadSettings()
       /\ checkPc' = "settings"
       /\ checkCalls' = checkCalls \cup {"settings"}
       /\ UNCHANGED badge

\* checkLeetCodePage: the answer to the extraction request.  n = NoData: no
\* tab, not a problem page or a failed extraction; else the record's number.
checkLeetCodePage(n) ==
  /\ checkPc = "extract"
  /\ IF n = NoData
     THEN /\ statusMsg' = "error"
          /\ errorText' = "extract"
          /\ checkPc' = "noPage"
          /\ UNCHANGED << problemData, badge, checkCalls >>
     ELSE /\ problemData' = n
          /\ checkForDuplicate_start(n)
          /\ UNCHANGED << statusMsg, errorText >>
  /\ UNCHANGED << store, open, notionPageId, notionPageUrl, checkSeen, checkSchema >>
  /\ UNCHANGED << envVars, valVars, saveVars >>
  /\ UNCHANGED unitVars

\* checkForDuplicate: `await this.loadSettings()` settles (outside the try)
checkForDuplicate_settings(readOk) ==
  /\ checkPc = "settings"
  /\ IF ~readOk
     THEN \* the rejection leaves checkForDuplicate; checkLeetCodePage catches it
          /\ checkPc' = "threw"
          /\ checkSeen' = Seen("storage", NoPage, "deleted")
          /\ UNCHANGED checkSchema
          /\ statusMsg' = "error"
          /\ errorText' = "extract"
          /\ UNCHANGED checkCalls
     ELSE IF ~configured
     THEN /\ checkPc' = "unconfigured"
          /\ UNCHANGED << statusMsg, errorText, checkCalls, checkSeen, checkSchema >>
     ELSE \* getCachedPage up to its read
          /\ checkPc' = "cache"
          /\ checkCalls' = checkCalls \cup {"cache"}
          /\ UNCHANGED << statusMsg, errorText, checkSeen, checkSchema >>
  /\ UNCHANGED << store, open, problemData, notionPageId, notionPageUrl, badge >>
  /\ UNCHANGED << envVars, valVars, saveVars >>
  /\ UNCHANGED unitVars

\* CacheHit without its `return`: the check goes on to the remote lookup
CacheHit_noReturn(cached) ==
  /\ notionPageId' = cached.pageId
  /\ notionPageUrl' = cached.url
  /\ badge' = TRUE
  /\ checkPc' = "schema"
  /\ checkCalls' = checkCalls \cup {"exists", "schema"}
  /\ valPc' = "fetch"
  /\ valPageId' = cached.pageId
  /\ UNCHANGED << store, checkSeen, checkSchema, valSeen >>

\* checkForDuplicate: the cache hit; validateCacheInBackground up to the
\* fetch of checkPageExists
CacheHit(cached) ==
  /\ notionPageId' = cached.pageId
  /\ notionPageUrl' = cached.url
  /\ badge' = TRUE
  /\ checkPc' = "hit"
  /\ checkCalls' = checkCalls \cup {"exists"}
  /\ valPc' = "fetch"
  /\ valPageId' = cached.pageId
  /\ UNCHANGED << store, checkSeen, checkSchema, valSeen >>

\* checkForDuplicate: the read of getCachedPage settles
checkForDuplicate_cache(readOk) ==
  /\ checkPc = "cache"
  /\ IF ~readOk
     THEN \* catch (error): fail silently
          /\ checkPc' = "caught"
          /\ checkSeen' = Seen("storage", NoPage, "deleted")
          /\ UNCHANGED checkSchema
          /\ badge' = FALSE
          /\ UNCHANGED << store, notionPageId, notionPageUrl, checkCalls, valVars >>
     ELSE LET cached == getCachedPage(store, problemData, now)
          IN IF cached # NoEntry
             THEN CacheHit(cached)
             ELSE IF getCachedPageExpires(store, problemData, now)
             THEN \* await chrome.storage.local.remove(key)
                  /\ store' = removeKey(store, problemData)
                  /\ checkPc' = "expire"
                  /\ UNCHANGED << notionPageId, notionPageUrl, badge, checkCalls,
                                  checkSeen, checkSchema, valVars >>
             ELSE \* cache miss; findPageInNotion up to its schema fetch
                  /\ checkPc' = "schema"
                  /\ checkCalls' = checkCalls \cup {"schema"}
                  /\ UNCHANGED << store, notionPageId, notionPageUrl, badge,
                                  checkSeen, checkSchema, valVars >>
  /\ UNCHANGED << open, problemData, statusMsg, errorText >>
  /\ UNCHANGED << envVars, saveVars >>
  /\ UNCHANGED unitVars

\* getCachedPage: the remove of the expired key settles; findPageInNotion
\* up to its schema fetch
checkForDuplicate_expired ==
  /\ checkPc = "expire"
  /\ checkPc' = "schema"
  /\ checkCalls' = checkCalls \cup {"schema"}
  /\ UNCHANGED << store, open, problemData, checkSeen, checkSchema >>
  /\ UNCHANGED << envVars, uiVars, valVars, saveVars >>
  /\ UNCHANGED unitVars

\* NotFoundBranch without showAlreadySavedBadge(false)
NotFoundBranch_noBadge ==
  /\ checkPc' = "notfound"
  /\ UNCHANGED << badge, store, notionPageId, notionPageUrl >>

\* findPageInNotion returned null: the else branch of checkForDuplicate
NotFoundBranch ==
  /\ checkPc' = "notfound"
  /\ badge' = FALSE
  /\ UNCHANGED << store, notionPageId, notionPageUrl >>

\* findPageInNotion: GET /databases/{id} settles
findPageInNotion_schema(o, schema) ==
  /\ checkPc = "schema"
  /\ checkSchema' = SchemaSeen(o, schema)
  /\ IF o # "ok"
     THEN /\ NotFoundBranch
          /\ checkSeen' = Seen(o, NoPage, "deleted")
          /\ UNCHANGED checkCalls
     ELSE IF Resolved[schema].number = NoProp
     THEN /\ NotFoundBranch
          /\ checkSeen' = Seen("noprop", NoPage, "deleted")
          /\ UNCHANGED checkCalls
     ELSE /\ checkPc' = "query"
          /\ checkCalls' = checkCalls \cup {"query"}
          /\ UNCHANGED << store, notionPageId, notionPageUrl, badge, checkSeen >>
  /\ UNCHANGED << open, problemData, statusMsg, errorText >>
  /\ UNCHANGED << envVars, valVars, saveVars >>
  /\ UNCHANGED unitVars

\* the pages a query filtered by the number can return
queryResults(n) ==
  { p \in PageIds : remote[p].number = n /\ remote[p].status \in {"live", "gone"} }

\* pageOfQuery with `page.in_trash` in place of `!page.in_trash`
pageOfQuery_missingNot(first, view) ==
  IF first # NoPage /\ view # "archived" /\ view = "trashed" THEN first ELSE NoPage

\* findPageInNotion: what it returns for results[0] = first shown as view
\* (first = NoPage: no result)
pageOfQuery(first, view) ==
  IF first # NoPage /\ view # "archived" /\ view # "trashed" THEN first ELSE NoPage

\* findPageInNotion: POST /databases/{id}/query settles; first = results[0]
\* (NoPage: no result); then checkForDuplicate up to `await this.cachePage`
findPageInNotion_query(o, first, view) ==
  /\ checkPc = "query"
  /\ IF o = "ok"
     THEN /\ first \in queryResults(problemData) \cup {NoPage}
          /\ first # NoPage => view \in Views(first) \ {"deleted"}
          \* no result: no live page has the number
          /\ first = NoPage =>
               /\ view = "deleted"
               /\ \A p \in queryResults(problemData) : remote[p].status = "gone"
     ELSE first = NoPage /\ view = "deleted"
  /\ checkSeen' = Seen(o, first, view)
  /\ UNCHANGED checkSchema
  /\ LET page == IF o = "ok" THEN pageOfQuery(first, view) ELSE NoPage
     IN IF page # NoPage
        THEN /\ notionPageId' = page
             /\ notionPageUrl' = PageUrl(page)
             /\ badge' = TRUE
             /\ store' = cachePage(store, problemData, page, PageUrl(page), now)
             /\ checkPc' = "cachePut"
        ELSE NotFoundBranch
  /\ UNCHANGED << open, problemData, statusMsg, errorText, checkCalls >>
  /\ UNCHANGED << envVars, valVars, saveVars >>
  /\ UNCHANGED unitVars

\* checkForDuplicate: the write of cachePage settles
checkForDuplicate_cached ==
  /\ checkPc = "cachePut"
  /\ checkPc' = "found"
  /\ UNCHANGED << store, open, problemData, checkCalls, checkSeen, checkSchema >>
  /\ UNCHANGED << envVars, uiVars, valVars, saveVars >>
  /\ UNCHANGED unitVars

(***************************************************************************)
(* validateCacheInBackground / checkPageExists.                            *)
(***************************************************************************)
\* checkPageExists without the test of page.in_trash
checkPageExists_noTrash(o, view) ==
  IF o = "reject" THEN FALSE
  ELSE IF o = "notok" THEN FALSE
  ELSE view # "archived"

\* checkPageExists: what it returns when GET /pages/{id} settles in o and
\* shows the page as view
checkPageExists(o, view) ==
  IF o = "reject" THEN FALSE
  ELSE IF o = "notok" THEN FALSE
  ELSE view # "archived" /\ view # "trashed"

\* validateCacheInBackground: the fetch of checkPageExists settles
validateCacheInBackground_response(o, view) ==
  /\ valPc = "fetch"
  /\ view \in Views(valPageId)
  \* a page that is not there answers 404
  /\ view = "deleted" => o # "ok"
  /\ valSeen' = IF o = "ok" THEN view ELSE o
  /\ IF checkPageExists(o, view)
     THEN valPc' = "kept" /\ UNCHANGED store
     ELSE \* await chrome.storage.local.remove(`problem_${problemNumber}`)
          /\ store' = removeKey(store, problemData)
          /\ valPc' = "remove"
  /\ UNCHANGED << open, problemData, valPageId >>
  /\ UNCHANGED << envVars, uiVars, checkVars, saveVars >>
  /\ UNCHANGED unitVars

\* validateCacheInBackground: the remove settles; the UI is updated
validateCacheInBackground_removed ==
  /\ valPc = "remove"
  /\ notionPageId' = NoPage
  /\ notionPageUrl' = NoUrl
  /\ badge' = FALSE
  /\ valPc' = "evicted"
  /\ UNCHANGED << store, open, problemData, statusMsg, errorText, valPageId,
                  valSeen >>
  /\ UNCHANGED << envVars, checkVars, saveVars >>
  /\ UNCHANGED unitVars

(***************************************************************************)
(* saveProblem: sendToNotion (create) and updateExistingPage (update).     *)
(* An invocation that has returned leaves its slot "idle" and its outcome  *)
(* in saveResult.  Invocations are interchangeable: slot i + 1 is taken    *)
(* only while slot i is running.                                           *)
(***************************************************************************)
\* saveProblem returns (or rejects) with outcome r
Settle(i, r) ==
  /\ savePc' = [savePc EXCEPT ![i] = "idle"]
  /\ saveLocal' = [saveLocal EXCEPT ![i] = NoLocal]
  /\ saveResult' = r

\* the save button is clicked: saveProblem up to `await this.loadSettings()`
saveProblem_click(i) ==
  /\ open
  /\ savePc[i] = "idle"
  /\ i > 1 => savePc[i - 1] # "idle"
  /\ UNCHANGED saveSeen
  /\ IF problemData = NoData
     THEN Settle(i, "noData") /\ statusMsg' = "error" /\ errorText' = "noData"
     ELSE /\ savePc' = [savePc EXCEPT ![i] = "settings"]
          \* found: whether this.notionPageId was set at the call
          /\ saveLocal' = [saveLocal EXCEPT ![i].found = notionPageId # NoPage]
          /\ UNCHANGED << statusMsg, errorText, saveResult >>
  /\ UNCHANGED << store, open, problemData, notionPageId, notionPageUrl, badge >>
  /\ UNCHANGED << envVars, checkVars, valVars >>
  /\ UNCHANGED unitVars

\* saveProblem_settings without the test of this.notionPageId
saveProblem_settings_create(i, readOk) ==
  /\ savePc[i] = "settings"
  /\ UNCHANGED saveSeen
  /\ IF ~readOk
     THEN Settle(i, "rejected") /\ UNCHANGED << statusMsg, errorText >>
     ELSE IF ~configured
     THEN Settle(i, "unconfigured") /\ statusMsg' = "error"
          /\ errorText' = "unconfigured"
     ELSE /\ savePc' = [savePc EXCEPT ![i] = "schema"]
          /\ UNCHANGED << statusMsg, errorText, saveLocal, saveResult >>
  /\ UNCHANGED << store, open, problemData, notionPageId, notionPageUrl, badge >>
  /\ UNCHANGED << envVars, checkVars, valVars >>
  /\ UNCHANGED unitVars

\* saveProblem: loadSettings settles; the test of this.notionPageId; then
\* updateExistingPage or sendToNotion up to its schema fetch
saveProblem_settings(i, readOk) ==
  /\ savePc[i] = "settings"
  /\ UNCHANGED saveSeen
  /\ IF ~readOk
     THEN \* no handler: the click handler's promise rejects, nothing is shown
          Settle(i, "rejected") /\ UNCHANGED << statusMsg, errorText >>
     ELSE IF ~configured
     THEN Settle(i, "unconfigured") /\ statusMsg' = "error"
          /\ errorText' = "unconfigured"
     ELSE IF notionPageId # NoPage
     THEN /\ savePc' = [savePc EXCEPT ![i] = "updSchema"]
          /\ saveLocal' = [saveLocal EXCEPT ![i].page = notionPageId]
          /\ UNCHANGED << statusMsg, errorText, saveResult >>
     ELSE /\ savePc' = [savePc EXCEPT ![i] = "schema"]
          /\ UNCHANGED << statusMsg, errorText, saveLocal, saveResult >>
  /\ UNCHANGED << store, open, problemData, notionPageId, notionPageUrl, badge >>
  /\ UNCHANGED << envVars, checkVars, valVars >>
  /\ UNCHANGED unitVars

\* the catch of saveProblem: showError(error.message), nothing else
SaveFails(i, message) ==
  /\ Settle(i, "failed")
  /\ statusMsg' = "error"
  /\ errorText' = message
  /\ UNCHANGED << store, remote, notionPageId, notionPageUrl, badge >>

\* SaveCreated without the assignment of this.notionPageUrl
SaveCreated_noUrl(i, p) ==
  /\ notionPageId' = p
  /\ UNCHANGED notionPageUrl
  /\ statusMsg' = "success"
  /\ errorText' = "none"
  /\ badge' = TRUE
  /\ Settle(i, "created")

\* SaveCreated without the assignments of this.notionPageId and
\* this.notionPageUrl
SaveCreated_noId(i, p) ==
  /\ UNCHANGED << notionPageId, notionPageUrl >>
  /\ statusMsg' = "success"
  /\ errorText' = "none"
  /\ badge' = TRUE
  /\ Settle(i, "created")

\* the end of saveProblem's create branch with the created page p
SaveCreated(i, p) ==
  /\ notionPageId' = p
  /\ notionPageUrl' = PageUrl(p)
  /\ statusMsg' = "success"
  /\ errorText' = "none"
  /\ badge' = TRUE
  /\ Settle(i, "created")

\* sendToNotion_schema building the payload from the schema the duplicate
\* check fetched, when it fetched one, instead of the response of its own GET
sendToNotion_schema_cached(i, o, schema) ==
  LET used == IF checkSchema.o = "ok" THEN checkSchema.schema ELSE schema
  IN /\ savePc[i] = "schema"
     /\ saveSeen' = SchemaSeen(o, schema)
     /\ IF o # "ok"
        THEN SaveFails(i, "schema")
        ELSE IF Resolved[used].title = NoProp
        THEN SaveFails(i, "noTitle")
        ELSE /\ savePc' = [savePc EXCEPT ![i] = "post"]
             /\ saveLocal' = [saveLocal EXCEPT
                                ![i].num = IF Resolved[used].number # NoProp
                                           THEN problemData ELSE 0,
                                ![i].title = Resolved[used].title.name]
             /\ UNCHANGED << store, remote, uiVars, saveResult >>
     /\ UNCHANGED << now, configured, open, problemData >>
     /\ UNCHANGED << checkVars, valVars >>
     /\ UNCHANGED unitVars

\* sendToNotion: GET /databases/{id} settles; buildNotionProperties; POST
\* /pages is issued
sendToNotion_schema(i, o, schema) ==
  /\ savePc[i] = "schema"
  /\ saveSeen' = SchemaSeen(o, schema)
  /\ IF o # "ok"
     THEN SaveFails(i, "schema")
     ELSE IF Resolved[schema].title = NoProp
     THEN \* buildNotionProperties throws
          SaveFails(i, "noTitle")
     ELSE /\ savePc' = [savePc EXCEPT ![i] = "post"]
          \* the payload: the title under titleProp.name, the number when
          \* its property resolves
          /\ saveLocal' = [saveLocal EXCEPT
                             ![i].num = IF Resolved[schema].number # NoProp
                                        THEN problemData ELSE 0,
                             ![i].title = Resolved[schema].title.name]
          /\ UNCHANGED << store, remote, uiVars, saveResult >>
  /\ UNCHANGED << now, configured, open, problemData >>
  /\ UNCHANGED << checkVars, valVars >>
  /\ UNCHANGED unitVars

\* the id the database gives the next page it creates
FreshIds == { p \in PageIds : remote[p].status = "unused" }
nextPageId == CHOOSE p \in FreshIds : \A q \in FreshIds : p <= q

\* sendToNotion: POST /pages settles (the page is created when the response
\* is a success); saveProblem up to `await this.cachePage`, or to its end
\* when the record has no number
sendToNotion_post(i, o) ==
  /\ savePc[i] = "post"
  /\ o = "ok" => FreshIds # {}
  /\ UNCHANGED saveSeen
  /\ IF o # "ok"
     THEN SaveFails(i, "create")
     ELSE LET p == nextPageId
          IN /\ remote' = [remote EXCEPT ![p] =
                             [number |-> saveLocal[i].num, status |-> "live"]]
             /\ IF problemData # 0
                THEN /\ store' = cachePage(store, problemData, p, PageUrl(p), now)
                     /\ savePc' = [savePc EXCEPT ![i] = "cachePut"]
                     /\ saveLocal' = [saveLocal EXCEPT ![i].page = p]
                     /\ UNCHANGED << uiVars, saveResult >>
                ELSE /\ SaveCreated(i, p)
                     /\ UNCHANGED store
  /\ UNCHANGED << now, configured, open, problemData >>
  /\ UNCHANGED << checkVars, valVars >>
  /\ UNCHANGED unitVars

\* saveProblem: the write of cachePage settles; the rest of the try block
saveProblem_cached(i) ==
  /\ savePc[i] = "cachePut"
  /\ SaveCreated(i, saveLocal[i].page)
  /\ UNCHANGED saveSeen
  /\ UNCHANGED << store, open, problemData >>
  /\ UNCHANGED << envVars, checkVars, valVars >>
  /\ UNCHANGED unitVars

\* updateExistingPage: GET /databases/{id} settles;
\* buildCheckboxUpdateProperties; PATCH /pages/{id} is issued
updateExistingPage_schema(i, o, schema) ==
  /\ savePc[i] = "updSchema"
  /\ saveSeen' = SchemaSeen(o, schema)
  /\ IF o # "ok"
     THEN SaveFails(i, "schema")
     ELSE IF Resolved[schema].checkboxes = {}
     THEN SaveFails(i, "noCheckbox")
     ELSE \* the body of the PATCH: { properties }
          /\ savePc' = [savePc EXCEPT ![i] = "patch"]
          /\ saveLocal' = [saveLocal EXCEPT ![i].patch = Resolved[schema].checkboxes]
          /\ UNCHANGED << store, remote, uiVars, saveResult >>
  /\ UNCHANGED << now, configured, open, problemData >>
  /\ UNCHANGED << checkVars, valVars >>
  /\ UNCHANGED unitVars

\* updateExistingPage: PATCH /pages/{id} settles (the API patches live pages
\* only); the rest of saveProblem's update branch
updateExistingPage_patch(i, o) ==
  /\ savePc[i] = "patch"
  /\ o = "ok" => remote[saveLocal[i].page].status = "live"
  /\ UNCHANGED saveSeen
  /\ IF o # "ok"
     THEN SaveFails(i, "update")
     ELSE /\ Settle(i, "updated")
          /\ statusMsg' = "success"
          /\ errorText' = "none"
          /\ badge' = TRUE
          /\ UNCHANGED << store, remote, notionPageId, notionPageUrl >>
  /\ UNCHANGED << now, configured, open, problemData >>
  /\ UNCHANGED << checkVars, valVars >>
  /\ UNCHANGED unitVars

(***************************************************************************)
(* The specification.                                                      *)
(***************************************************************************)
Next ==
  \/ Tick
  \/ \E p \in PageIds : RemoteRemove(p)
  \/ saveSettings
  \/ clearSettings
  \/ PopupOpen
  \/ PopupClose
  \/ \E n \in {NoData} \cup (0..MaxNumber) : checkLeetCodePage(n)
  \/ \E readOk \in BOOLEAN : checkForDuplicate_settings(readOk)
  \/ \E readOk \in BOOLEAN : checkForDuplicate_cache(readOk)
  \/ checkForDuplicate_expired
  \/ \E o \in FetchOutcomes, s \in Schemas : findPageInNotion_schema(o, s)
  \/ \E o \in FetchOutcomes, first \in PageIds \cup {NoPage}, view \in GoneViews \cup {"live"} :
       findPageInNotion_query(o, first, view)
  \/ checkForDuplicate_cached
  \/ \E o \in FetchOutcomes, view \in GoneViews \cup {"live"} :
       validateCacheInBackground_response(o, view)
  \/ validateCacheInBackground_removed
  \/ \E i \in Saves : saveProblem_click(i)
  \/ \E i \in Saves, readOk \in BOOLEAN : saveProblem_settings(i, readOk)
  \/ \E i \in Saves, o \in FetchOutcomes, s \in Schemas : sendToNotion_schema(i, o, s)
  \/ \E i \in Saves, o \in FetchOutcomes : sendToNotion_post(i, o)
  \/ \E i \in Saves : saveProblem_cached(i)
  \/ \E i \in Saves, o \in FetchOutcomes, s \in Schemas : updateExistingPage_schema(i, o, s)
  \/ \E i \in Saves, o \in FetchOutcomes : updateExistingPage_patch(i, o)

Spec == Init /\ [][Next]_vars

\* the validation continues whenever its promise has settled and the popup
\* is alive: the event loop runs every continuation that is ready
SpecLive == Spec /\ WF_vars(validateCacheInBackground_removed)

\* a step of checkLeetCodePage / checkForDuplicate: one of its awaited calls
\* settles and its continuation runs
CheckStep ==
  \/ \E n \in {NoData} \cup (0..MaxNumber) : checkLeetCodePage(n)
  \/ \E readOk \in BOOLEAN : checkForDuplicate_settings(readOk)
  \/ \E readOk \in BOOLEAN : checkForDuplicate_cache(readOk)
  \/ checkForDuplicate_expired
  \/ \E o \in FetchOutcomes, s \in Schemas : findPageInNotion_schema(o, s)
  \/ \E o \in FetchOutcomes, first \in PageIds \cup {NoPage}, view \in GoneViews \cup {"live"} :
       findPageInNotion_query(o, first, view)
  \/ checkForDuplicate_cached
\* a step of validateCacheInBackground
ValidationStep ==
  \/ \E o \in FetchOutcomes, view \in GoneViews \cup {"live"} :
       validateCacheInBackground_response(o, view)
  \/ validateCacheInBackground_removed
\* every storage and remote call of the duplicate check and of the
\* background validation settles, and the continuation that waits for it
\* runs (each of the two is one sequential async function)
CallsSettle == WF_vars(CheckStep) /\ WF_vars(ValidationStep)
SpecSettle == Spec /\ CallsSettle

(***************************************************************************)
(* SpecCache: cachePage and getCachedPage called directly, for any number, *)
(* page id and url, at any time of a clock that advances in half TTLs.     *)
(***************************************************************************)
UnitUrls == { PageUrl(p) : p \in PageIds }

InitCache ==
  /\ now = 0
  /\ store = EmptyStore
  /\ configured = TRUE
  /\ remote = [p \in PageIds |-> NoRecord]
  /\ AppClosed
  /\ UnitIdle

UnitTick ==
  /\ now < MaxUnitTicks * UnitTickMs
  /\ now' = now + UnitTickMs
  /\ UNCHANGED << store, configured, remote, appVars, unitVars >>

\* await cachePage(problemNumber, pageId, url)
UnitCachePage(problemNumber, pageId, url) ==
  /\ store' = cachePage(store, problemNumber, pageId, url, now)
  /\ unitCall' = [op |-> "cachePage", n |-> problemNumber, t |-> now,
                   found |-> store[problemNumber]]
  /\ unitRet' = NoCall
  /\ unitPut' = [unitPut EXCEPT ![problemNumber] =
                   [pageId |-> pageId, url |-> url, timestamp |-> now]]
  /\ UNCHANGED << now, configured, remote, appVars >>

\* await getCachedPage(problemNumber)
UnitGetCachedPage(problemNumber) ==
  /\ unitRet' = getCachedPage(store, problemNumber, now)
  /\ store' = IF getCachedPageExpires(store, problemNumber, now)
              THEN removeKey(store, problemNumber)
              ELSE store
  /\ unitCall' = [op |-> "getCachedPage", n |-> problemNumber, t |-> now,
                   found |-> store[problemNumber]]
  /\ UNCHANGED << now, configured, remote, appVars, unitPut >>

NextCache ==
  \/ UnitTick
  \/ \E n \in Numbers, p \in PageIds, u \in UnitUrls : UnitCachePage(n, p, u)
  \/ \E n \in Numbers : UnitGetCachedPage(n)

SpecCache == InitCache /\ [][NextCache]_vars

(***************************************************************************)
(* SpecFind: findProperty called directly on every schema of at most       *)
(* MaxProps properties (an object: no name twice), in the order            *)
(* Object.entries yields them.                                             *)
(***************************************************************************)
FindNames == { <<"I","D">>, <<"i","d">>, <<"I","d","s">>, <<"N","o">> }
FindTypes == {"number", "rich_text"}
FindProps == [name : FindNames, type : FindTypes]
FindSchemas ==
  UNION { { props \in [1..k -> FindProps] :
              \A i, j \in 1..k : props[i].name = props[j].name => i = j }
          : k \in 0..MaxProps }
FindAliases == { << >>, << <<"I","D">> >>, << <<"#">>, <<"i","d">> >> }
FindAllowed == { {}, {"number"}, {"checkbox"} }

\* the arguments of a call of findProperty that has not run yet
FindCalls ==
  [op : {"call"}, properties : FindSchemas, aliases : FindAliases,
   allowedTypes : FindAllowed]

InitFind ==
  /\ now = 0
  /\ store = EmptyStore
  /\ configured = TRUE
  /\ remote = [p \in PageIds |-> NoRecord]
  /\ AppClosed
  /\ unitCall \in FindCalls
  /\ unitRet = NoCall
  /\ unitPut = [n \in Numbers |-> NoEntry]

\* this.findProperty(properties, aliases, allowedTypes)
UnitFindProperty ==
  /\ unitCall.op = "call"
  /\ unitCall' = [unitCall EXCEPT !.op = "findProperty"]
  /\ unitRet' = findProperty(unitCall.properties, unitCall.aliases,
                              unitCall.allowedTypes)
  /\ UNCHANGED << now, store, configured, remote, appVars, unitPut >>

NextFind == UnitFindProperty

SpecFind == InitFind /\ [][NextFind]_vars

(***************************************************************************)
(* SpecBuild: buildNotionProperties called directly.  A record (data) is   *)
(* the set of its logical fields whose value is truthy; a payload maps the *)
(* name of a property to its value, a value being its type, the field it   *)
(* was built from and, for a checkbox, "true" or "false".                  *)
(***************************************************************************)
\* the number, fieldConfigs and the tags, in the order buildNotionProperties
\* goes through them (ASCII aliases)
FieldConfigs ==
  << [field |-> "number", types |-> {"number"},
      aliases |-> NumberAliases],
     [field |-> "difficulty", types |-> {"select"},
      aliases |-> << <<"D","i","f","f","i","c","u","l","t","y">> >>],
     [field |-> "status", types |-> {"select"},
      aliases |-> << <<"S","t","a","t","u","s">> >>],
     [field |-> "url", types |-> {"url"},
      aliases |-> << <<"U","R","L">>, <<"L","i","n","k">> >>],
     [field |-> "timeSpent", types |-> {"rich_text"},
      aliases |-> << <<"T","i","m","e"," ","S","p","e","n","t">> >>],
     [field |-> "dateCompleted", types |-> {"date"},
      aliases |-> << <<"D","a","t","e"," ","C","o","m","p","l","e","t","e","d">> >>],
     [field |-> "notes", types |-> {"rich_text"},
      aliases |-> << <<"N","o","t","e","s">> >>],
     [field |-> "language", types |-> {"select"},
      aliases |-> << <<"L","a","n","g","u","a","g","e">> >>],
     [field |-> "neededHint", types |-> {"checkbox"},
      aliases |-> NeededHintAliases],
     [field |-> "canRedo", types |-> {"checkbox"},
      aliases |-> CanRedoAliases],
     [field |-> "tags", types |-> {"multi_select"},
      aliases |-> << <<"T","a","g","s">>, <<"T","o","p","i","c","s">> >>] >>
FieldNames == { FieldConfigs[k].field : k \in 1..Len(FieldConfigs) }

\* a database with one property for every logical field
BuildFull ==
  << [name |-> <<"N","a","m","e">>, type |-> "title"],
     [name |-> <<"N","u","m","b","e","r">>, type |-> "number"],
     [name |-> <<"D","i","f","f","i","c","u","l","t","y">>, type |-> "select"],
     [name |-> <<"S","t","a","t","u","s">>, type |-> "select"],
     [name |-> <<"U","R","L">>, type |-> "url"],
     [name |-> <<"T","i","m","e"," ","S","p","e","n","t">>, type |-> "rich_text"],
     [name |-> <<"D","a","t","e"," ","C","o","m","p","l","e","t","e","d">>, type |-> "date"],
     [name |-> <<"N","o","t","e","s">>, type |-> "rich_text"],
     [name |-> <<"L","a","n","g","u","a","g","e">>, type |-> "select"],
     [name |-> <<"N","e","e","d","e","d"," ","H","i","n","t">>, type |-> "checkbox"],
     [name |-> <<"C","a","n"," ","R","e","d","o">>, type |-> "checkbox"],
     [name |-> <<"T","a","g","s">>, type |-> "multi_select"] >>
\* properties of other types and other spellings
BuildPartial ==
  << [name |-> <<"T","i","t","l","e">>, type |-> "title"],
     [name |-> <<"D","i","f","f","i","c","u","l","t","y">>, type |-> "rich_text"],
     [name |-> <<"n","o","t","e","s">>, type |-> "rich_text"],
     [name |-> <<"H","i","n","t">>, type |-> "checkbox"],
     [name |-> <<"L","i","n","k">>, type |-> "url"] >>
\* one select property named after two logical fields
BuildShared ==
  << [name |-> <<"N","a","m","e">>, type |-> "title"],
     [name |-> <<"S","t","a","t","u","s"," ","/"," ","D","i","f","f","i","c","u","l","t","y">>, type |-> "select"],
     [name |-> <<"L","a","n","g","u","a","g","e">>, type |-> "select"] >>
BuildSchemas == {BuildFull, BuildPartial, BuildShared, SchemaEmpty}

\* the property each logical field resolves to in each schema (each
\* resolved once)
ResolvedField ==
  [ s \in BuildSchemas |->
      [ k \in 1..Len(FieldConfigs) |->
          findProperty(s, FieldConfigs[k].aliases, FieldConfigs[k].types) ] ]
ResolvedTitle == [ s \in BuildSchemas |-> titlePropOf(s) ]

\* buildPropertyValue(prop.type, field.value), and the multi_select of the tags
buildPropertyValue(type, field, truthy) ==
  [type |-> type, field |-> field,
   value |-> IF type # "checkbox" THEN "set" ELSE IF truthy THEN "true" ELSE "false"]

\* properties[name] = value
Assign(properties, name, value) ==
  [n \in DOMAIN properties \cup {name} |-> IF n = name THEN value ELSE properties[n]]

\* buildNotionProperties: the number, the loop over fieldConfigs and the
\* tags, from the field at index k on
RECURSIVE buildFieldsFrom(_, _, _, _)
buildFieldsFrom(data, schema, properties, k) ==
  IF k > Len(FieldConfigs) THEN properties
  ELSE LET prop == ResolvedField[schema][k]
           field == FieldConfigs[k].field
       IN IF prop # NoProp /\ (prop.type = "checkbox" \/ field \in data)
          THEN buildFieldsFrom(data, schema,
                 Assign(properties, prop.name,
                        buildPropertyValue(prop.type, field, field \in data)),
                 k + 1)
          ELSE buildFieldsFrom(data, schema, properties, k + 1)

NoPayload == [n \in {} |-> NoProp]

\* buildNotionProperties(data, dbProperties): the payload, or the error
buildNotionProperties(data, schema) ==
  LET titleProp == ResolvedTitle[schema]
  IN IF titleProp = NoProp
     THEN [error |-> "noTitle", properties |-> NoPayload]
     ELSE [error |-> "none",
           properties |-> buildFieldsFrom(data, schema,
                            Assign(NoPayload, titleProp.name,
                                   [type |-> "title", field |-> "problemName",
                                    value |-> "set"]),
                            1)]

BuildCalls == [op : {"call"}, data : SUBSET FieldNames, schema : BuildSchemas]

InitBuild ==
  /\ now = 0
  /\ store = EmptyStore
  /\ configured = TRUE
  /\ remote = [p \in PageIds |-> NoRecord]
  /\ AppClosed
  /\ unitCall \in BuildCalls
  /\ unitRet = NoCall
  /\ unitPut = [n \in Numbers |-> NoEntry]

\* this.buildNotionProperties(data, db.properties || {})
UnitBuildNotionProperties ==
  /\ unitCall.op = "call"
  /\ unitCall' = [unitCall EXCEPT !.op = "buildNotionProperties"]
  /\ unitRet' = buildNotionProperties(unitCall.data, unitCall.schema)
  /\ UNCHANGED << now, store, configured, remote, appVars, unitPut >>

NextBuild == UnitBuildNotionProperties

SpecBuild == InitBuild /\ [][NextBuild]_vars

(***************************************************************************)
(* SpecChunk: buildNotionChildren called directly.  A source code is the   *)
(* sequence of its characters; the character at position i is written i,   *)
(* so that a run out of place or a lost character shows.                   *)
(***************************************************************************)
ChunkSize == 2000
CodeLengths ==
  (0..MaxShort) \cup ((ChunkSize - Margin)..(ChunkSize + Margin))
                \cup ((2 * ChunkSize - Margin)..(2 * ChunkSize + Margin))
CodeOfLength(n) == [i \in 1..n |-> i]

\* String.prototype.slice with a short upper index
slice_short(str, from, to) ==
  SubSeq(str, from + 1, IF to - 1 < Len(str) THEN to - 1 ELSE Len(str))

\* String.prototype.slice(from, to), 0 <= from <= to
slice(str, from, to) ==
  SubSeq(str, from + 1, IF to < Len(str) THEN to ELSE Len(str))

\* buildNotionChildren: the loop `for (let i = 0; i < code.length; i += 2000)`
RECURSIVE chunksFrom(_, _)
chunksFrom(code, i) ==
  IF i < Len(code)
  THEN << slice(code, i, i + ChunkSize) >> \o chunksFrom(code, i + ChunkSize)
  ELSE << >>

\* buildNotionChildren(data), for data.code (absent or empty: << >>)
buildNotionChildren(code) ==
  IF code = << >> THEN << >>
  ELSE << [object |-> "block", type |-> "code", rich_text |-> chunksFrom(code, 0)] >>

\* sendToNotion: the body of POST /pages has a children member
bodyHasChildren(children) == Len(children) > 0

ChunkCalls == [op : {"call"}, code : { CodeOfLength(n) : n \in CodeLengths }]

InitChunk ==
  /\ now = 0
  /\ store = EmptyStore
  /\ configured = TRUE
  /\ remote = [p \in PageIds |-> NoRecord]
  /\ AppClosed
  /\ unitCall \in ChunkCalls
  /\ unitRet = NoCall
  /\ unitPut = [n \in Numbers |-> NoEntry]

\* const children = this.buildNotionChildren(data), and the body built of it
UnitBuildNotionChildren ==
  /\ unitCall.op = "call"
  /\ unitCall' = [unitCall EXCEPT !.op = "buildNotionChildren"]
  /\ LET children == buildNotionChildren(unitCall.code)
     IN unitRet' = [children |-> children, inBody |-> bodyHasChildren(children)]
  /\ UNCHANGED << now, store, configured, remote, appVars, unitPut >>

NextChunk == UnitBuildNotionChildren

SpecChunk == InitChunk /\ [][NextChunk]_vars

(***************************************************************************)
(* options.js: saveSettings and testConnection on the two fields of the    *)
(* settings page.  SpecSettings starts with the fields filled from         *)
(* SettingsTokens and SettingsIds and with chrome.storage.local empty or   *)
(* holding earlier credentials; unitCall holds the fields and the last     *)
(* handler run, unitPut the stored credentials, unitRet the status shown   *)
(* and the requests sent to api.notion.com.                                *)
(***************************************************************************)
\* the length the database id is compared with
IdLength == 32
Hex == {"0","1","2","3","4","5","6","7","8","9",
        "a","b","c","d","e","f","A","B","C","D","E","F"}
\* /^[a-f0-9]+$/i.test(s)
isHex(s) == Len(s) >= 1 /\ \A i \in 1..Len(s) : s[i] \in Hex
\* s.replace(/-/g, "")
stripHyphens(s) == SelectSeq(s, LAMBDA c : c # "-")
\* s.trim(), the white space being the space character
RECURSIVE trimStart(_)
trimStart(s) == IF s # <<>> /\ Head(s) = " " THEN trimStart(Tail(s)) ELSE s
RECURSIVE trimEnd(_)
trimEnd(s) ==
  IF s # <<>> /\ s[Len(s)] = " " THEN trimEnd(SubSeq(s, 1, Len(s) - 1)) ELSE s
trim(s) == trimEnd(trimStart(s))
\* s.startsWith(prefix)
startsWith(s, prefix) ==
  Len(s) >= Len(prefix) /\ SubSeq(s, 1, Len(prefix)) = prefix
\* const isSupportedToken = ...
isSupportedToken(token) ==
  \/ startsWith(token, <<"s","e","c","r","e","t","_">>)
  \/ startsWith(token, <<"n","t","n","_">>)
\* the negation of the condition of the third `if` of saveSettings
isSupportedDatabaseId(databaseId) ==
  ~ ( Len(databaseId) # IdLength \/ ~isHex(stripHyphens(databaseId)) )

\* n times the character c
Rep(c, n) == [i \in 1..n |-> c]
HexDigits == <<"0","1","2","3","4","5","6","7","8","9","a","b","c","d","e","f">>
\* n hexadecimal characters
HexRun(n) == [i \in 1..n |-> HexDigits[((i - 1) % 16) + 1]]
\* the values of the token field
SettingsTokens ==
  { <<"s","e","c","r","e","t","_","a","b">>,
    <<"n","t","n","_","a","b">>,
    <<"n","t","n","_">>,
    <<"s","e","c","r","e","t">>,
    <<"S","e","c","r","e","t","_","a","b">>,
    <<"x","n","t","n","_","a","b">>,
    <<"t","o","k","e","n">>,
    <<" ","n","t","n","_","a","b"," ">>,
    <<" ">>,
    <<>> }
\* the values of the database id field: 32 hexadecimal characters, in upper
\* case, with a letter that is not hexadecimal, one fewer, one more, as a
\* hyphenated UUID (8-4-4-4-12), 32 characters of which two are hyphens,
\* 32 hyphens, padded with spaces, empty
SettingsIds ==
  { HexRun(IdLength),
    [i \in 1..IdLength |-> IF i % 2 = 0 THEN "A" ELSE "F"],
    HexRun(IdLength - 1) \o <<"g">>,
    HexRun(IdLength - 1),
    HexRun(IdLength + 1),
    HexRun(8) \o <<"-">> \o HexRun(4) \o <<"-">> \o HexRun(4) \o <<"-">>
      \o HexRun(4) \o <<"-">> \o HexRun(12),
    HexRun(IdLength - 2) \o <<"-","-">>,
    Rep("-", IdLength),
    <<" ">> \o HexRun(IdLength) \o <<" ">>,
    <<>> }
\* chrome.storage.local without credentials
NoSettings == [notionToken |-> <<>>, databaseId |-> <<>>]
\* credentials stored by an earlier save
OldSettings == [notionToken |-> <<"n","t","n","_","o","l","d">>,
                databaseId |-> Rep("0", IdLength)]
SettingsCalls ==
  [op : {"call"}, token : SettingsTokens, databaseId : SettingsIds]

InitSettings ==
  /\ now = 0
  /\ store = EmptyStore
  /\ configured = TRUE
  /\ remote = [p \in PageIds |-> NoRecord]
  /\ AppClosed
  /\ unitCall \in SettingsCalls
  /\ unitRet = [status |-> "none", requests |-> {}]
  /\ unitPut \in {NoSettings, OldSettings}

\* saveSettings; writeOk: chrome.storage.local.set resolves
UnitSaveSettings(writeOk) ==
  LET token == trim(unitCall.token)
      databaseId == trim(unitCall.databaseId)
  IN /\ unitCall' = [unitCall EXCEPT !.op = "saveSettings"]
     /\ IF token = <<>> \/ databaseId = <<>>
        THEN /\ unitRet' = [unitRet EXCEPT !.status = "required"]
             /\ UNCHANGED unitPut
        ELSE IF ~isSupportedToken(token)
        THEN /\ unitRet' = [unitRet EXCEPT !.status = "badToken"]
             /\ UNCHANGED unitPut
        ELSE IF ~isSupportedDatabaseId(databaseId)
        THEN /\ unitRet' = [unitRet EXCEPT !.status = "badDatabaseId"]
             /\ UNCHANGED unitPut
        ELSE IF writeOk
        THEN /\ unitPut' = [notionToken |-> token, databaseId |-> databaseId]
             /\ unitRet' = [unitRet EXCEPT !.status = "saved"]
        ELSE /\ unitRet' = [unitRet EXCEPT !.status = "saveFailed"]
             /\ UNCHANGED unitPut
     /\ UNCHANGED << now, store, configured, remote, appVars >>

\* testConnection; o: how the GET /databases/{databaseId} settles
UnitTestConnection(o) ==
  LET token == trim(unitCall.token)
      databaseId == trim(unitCall.databaseId)
  IN /\ unitCall' = [unitCall EXCEPT !.op = "testConnection"]
     /\ IF token = <<>> \/ databaseId = <<>>
        THEN unitRet' = [unitRet EXCEPT !.status = "required"]
        ELSE unitRet' =
               [status |-> IF o = "ok" THEN "connected" ELSE "connectionFailed",
                requests |-> unitRet.requests
                               \cup {[token |-> token, databaseId |-> databaseId]}]
     /\ UNCHANGED << now, store, configured, remote, appVars, unitPut >>

\* clearSettings (confirmed); clearOk: chrome.storage.local.clear resolves.
\* The fields are emptied, so no later handler of this page passes the
\* test of the required fields.
UnitClearSettings(clearOk) ==
  /\ IF clearOk
     THEN /\ unitPut' = NoSettings
          /\ unitCall' = [op |-> "clearSettings", token |-> <<>>, databaseId |-> <<>>]
          /\ unitRet' = [unitRet EXCEPT !.status = "cleared"]
     ELSE /\ unitCall' = [unitCall EXCEPT !.op = "clearSettings"]
          /\ unitRet' = [unitRet EXCEPT !.status = "clearFailed"]
          /\ UNCHANGED unitPut
  /\ UNCHANGED << now, store, configured, remote, appVars >>

NextSettings ==
  \/ \E writeOk \in BOOLEAN : UnitSaveSettings(writeOk)
  \/ \E o \in FetchOutcomes : UnitTestConnection(o)
  \/ \E clearOk \in BOOLEAN : UnitClearSettings(clearOk)

SpecSettings == InitSettings /\ [][NextSettings]_vars

(***************************************************************************)
(* popup.js: parseTimeToMs and applyManualTimeInput.  SpecTime starts with *)
(* the manual time field holding one to four parts of TimeParts joined by  *)
(* ":" and a timer that shows OldElapsed; unitCall holds the field and the *)
(* timer, unitRet what applyManualTimeInput leaves.                        *)
(***************************************************************************)
\* the most parts a value of the field is built of
MaxParts == 4
Digits == <<"0","1","2","3","4","5","6","7","8","9">>
\* /^\d+$/.test(part)
isDigits(part) ==
  Len(part) >= 1 /\ \A i \in 1..Len(part) : \E d \in 1..10 : part[i] = Digits[d]
\* Number(part), part being decimal digits
RECURSIVE Number(_)
Number(part) ==
  IF part = <<>> THEN 0
  ELSE 10 * Number(SubSeq(part, 1, Len(part) - 1))
         + (CHOOSE d \in 0..9 : Digits[d + 1] = part[Len(part)])
\* raw.split(":")
RECURSIVE split(_)
split(raw) ==
  IF \A i \in 1..Len(raw) : raw[i] # ":"
  THEN << raw >>
  ELSE LET k == CHOOSE i \in 1..Len(raw) :
                  raw[i] = ":" /\ \A j \in 1..(i - 1) : raw[j] # ":"
       IN << SubSeq(raw, 1, k - 1) >> \o split(SubSeq(raw, k + 1, Len(raw)))
\* parseTimeToMs returns null
Null == -1
\* the last line of parseTimeToMs with the factor 1000 left out
msOf_seconds(hours, minutes, seconds) == hours * 3600 + minutes * 60 + seconds
\* the last line of parseTimeToMs
msOf(hours, minutes, seconds) == (hours * 3600 + minutes * 60 + seconds) * 1000
parseTimeToMs(value) ==
  LET raw == trim(value)
      parts == [i \in 1..Len(split(raw)) |-> trim(split(raw)[i])]
  IN IF raw = <<>> THEN Null
     ELSE IF Len(parts) < 1 \/ Len(parts) > 3 THEN Null
     ELSE IF \E i \in 1..Len(parts) : ~isDigits(parts[i]) THEN Null
     ELSE LET hours == IF Len(parts) = 3 THEN Number(parts[1]) ELSE 0
              minutes == IF Len(parts) = 3 THEN Number(parts[2])
                         ELSE IF Len(parts) = 2 THEN Number(parts[1]) ELSE 0
              seconds == Number(parts[Len(parts)])
          IN IF Len(parts) = 3 /\ minutes > 59 THEN Null
             ELSE IF seconds > 59 /\ Len(parts) > 1 THEN Null
             ELSE msOf(hours, minutes, seconds)

\* the parts a value of the field is built of
TimeParts ==
  { <<>>, <<"0">>, <<"0","0">>, <<"1">>, <<"3","0">>, <<"4","5">>, <<"5","9">>,
    <<"6","0">>, <<"9","0">>, <<"1","a">>, <<" ","7">> }
\* the parts joined by ":"
RECURSIVE joinColon(_)
joinColon(parts) ==
  IF Len(parts) = 1 THEN parts[1]
  ELSE parts[1] \o <<":">> \o joinColon(Tail(parts))
TimeInputs == UNION { [1..n -> TimeParts] : n \in 1..MaxParts }
\* this.timer.elapsedTime before the input is applied
OldElapsed == 5000
TimeCalls ==
  { [op |-> "call", parts |-> ps, value |-> joinColon(ps), isRunning |-> r]
      : ps \in TimeInputs, r \in BOOLEAN }

InitTime ==
  /\ now = 0
  /\ store = EmptyStore
  /\ configured = TRUE
  /\ remote = [p \in PageIds |-> NoRecord]
  /\ AppClosed
  /\ unitCall \in TimeCalls
  /\ unitRet = [ms |-> Null, elapsedTime |-> OldElapsed,
                startTime |-> IF unitCall.isRunning THEN now - OldElapsed ELSE "null",
                error |-> FALSE, saved |-> FALSE]
  /\ unitPut = [n \in Numbers |-> NoEntry]

\* applyManualTimeInput on the value of the field
UnitApplyManualTimeInput ==
  /\ unitCall.op = "call"
  /\ unitCall' = [unitCall EXCEPT !.op = "applyManualTimeInput"]
  /\ LET manualMs == parseTimeToMs(unitCall.value)
     IN IF manualMs = Null
        THEN unitRet' = [unitRet EXCEPT !.error = TRUE]
        ELSE unitRet' = [ms |-> manualMs, elapsedTime |-> manualMs,
                         startTime |-> IF unitCall.isRunning THEN now - manualMs
                                       ELSE unitRet.startTime,
                         error |-> FALSE, saved |-> TRUE]
  /\ UNCHANGED << now, store, configured, remote, appVars, unitPut >>

NextTime == UnitApplyManualTimeInput

SpecTime == InitTime /\ [][NextTime]_vars

(***************************************************************************)
(* popup.js: the timer and its persisted state.  In SpecTimer unitCall     *)
(* holds the active tab's URL and how far init() of the popup has got,     *)
(* unitRet is this.timer, unitPut the timerState of chrome.storage.local.  *)
(***************************************************************************)
\* the ticks of the clock in SpecTimer and the length of one
MaxTimerTicks == 3
TimerTickMs == 1000
TimerUrls == {"u1", "u2"}
\* tabs[0]?.url: "none" when there is no tab, "undefined" when the tab shows
\* no url
TabUrls == TimerUrls \cup {"none", "undefined"}
\* this.timer as the constructor leaves it
TimerZero == [elapsedTime |-> 0, isRunning |-> FALSE, startTime |-> "null"]
NoTimerState == [url |-> "none"]
\* the timerState saveTimerState writes
timerStateOf(timer, tabUrl) ==
  [elapsedTime |-> timer.elapsedTime, isRunning |-> timer.isRunning,
   startTime |-> timer.startTime,
   url |-> IF tabUrl \in TimerUrls THEN tabUrl ELSE "null"]
\* saveTimerState; saveOk: tabs.query and storage.local.set resolve
saveTimerState(saveOk, timer) ==
  unitPut' = IF saveOk THEN timerStateOf(timer, unitCall.tabUrl) ELSE unitPut
\* loadTimerState applying the state whatever its url
timerStateApplies_anyUrl(state, tabUrl) == tabUrl # "none"
\* loadTimerState: tabs[0] && state.url === tabs[0].url
timerStateApplies(state, tabUrl) == tabUrl # "none" /\ state.url = tabUrl
\* what startTimer makes of a timer that is not running
started(timer) ==
  [elapsedTime |-> timer.elapsedTime, isRunning |-> TRUE,
   startTime |-> now - timer.elapsedTime]

InitTimer ==
  /\ now = 0
  /\ store = EmptyStore
  /\ configured = TRUE
  /\ remote = [p \in PageIds |-> NoRecord]
  /\ AppClosed
  /\ unitCall = [op |-> "none", tabUrl |-> "u1", pc |-> "closed", touched |-> FALSE]
  /\ unitRet = TimerZero
  /\ unitPut = NoTimerState

TimerFrame == UNCHANGED << store, configured, remote, appVars >>

\* the popup is opened: the constructor; init() runs up to loadTimerState
TimerPopupOpen ==
  /\ unitCall.pc = "closed"
  /\ unitCall' = [unitCall EXCEPT !.op = "open", !.pc = "init", !.touched = FALSE]
  /\ unitRet' = TimerZero
  /\ UNCHANGED << now, unitPut >>
  /\ TimerFrame

TimerPopupClose ==
  /\ unitCall.pc # "closed"
  /\ unitCall' = [unitCall EXCEPT !.op = "close", !.pc = "closed"]
  /\ unitRet' = TimerZero
  /\ UNCHANGED << now, unitPut >>
  /\ TimerFrame

\* the active tab shows another url, or there is no tab
TimerNavigate(url) ==
  /\ url # unitCall.tabUrl
  /\ unitCall' = [unitCall EXCEPT !.op = "navigate", !.tabUrl = url]
  /\ UNCHANGED << now, unitRet, unitPut >>
  /\ TimerFrame

\* time passes; the interval of a running timer calls updateTimer
TimerTick ==
  /\ now < MaxTimerTicks * TimerTickMs
  /\ now' = now + TimerTickMs
  /\ unitRet' = IF unitCall.pc # "closed" /\ unitRet.isRunning
                THEN [unitRet EXCEPT !.elapsedTime = now' - unitRet.startTime]
                ELSE unitRet
  /\ unitCall' = [unitCall EXCEPT !.op = "tick"]
  /\ UNCHANGED unitPut
  /\ TimerFrame

loadTimerState(saveOk) ==
  /\ unitCall.pc = "init"
  /\ unitCall' = [unitCall EXCEPT !.op = "loadTimerState", !.pc = "loaded"]
  /\ IF unitPut # NoTimerState /\ timerStateApplies(unitPut, unitCall.tabUrl)
     THEN LET restored == [unitRet EXCEPT !.elapsedTime = unitPut.elapsedTime]
          IN IF unitPut.isRunning /\ ~unitRet.isRunning
             THEN /\ unitRet' = started(restored)
                  /\ saveTimerState(saveOk, started(restored))
             ELSE /\ unitRet' = restored
                  /\ UNCHANGED unitPut
     ELSE UNCHANGED << unitRet, unitPut >>
  /\ UNCHANGED now
  /\ TimerFrame

startTimer(saveOk) ==
  /\ unitCall.pc # "closed"
  /\ ~unitRet.isRunning
  /\ unitCall' = [unitCall EXCEPT !.op = "startTimer", !.touched = TRUE]
  /\ unitRet' = started(unitRet)
  /\ saveTimerState(saveOk, started(unitRet))
  /\ UNCHANGED now
  /\ TimerFrame

pauseTimer(saveOk) ==
  /\ unitCall.pc # "closed"
  /\ unitRet.isRunning
  /\ unitCall' = [unitCall EXCEPT !.op = "pauseTimer", !.touched = TRUE]
  /\ LET paused == [unitRet EXCEPT !.isRunning = FALSE,
                                   !.elapsedTime = now - unitRet.startTime]
     IN /\ unitRet' = paused
        /\ saveTimerState(saveOk, paused)
  /\ UNCHANGED now
  /\ TimerFrame

resetTimer(saveOk) ==
  /\ unitCall.pc # "closed"
  /\ unitCall' = [unitCall EXCEPT !.op = "resetTimer", !.touched = TRUE]
  /\ unitRet' = TimerZero
  /\ saveTimerState(saveOk, TimerZero)
  /\ UNCHANGED now
  /\ TimerFrame

NextTimer ==
  \/ TimerPopupOpen
  \/ TimerPopupClose
  \/ \E url \in TabUrls : TimerNavigate(url)
  \/ TimerTick
  \/ \E saveOk \in BOOLEAN : loadTimerState(saveOk)
  \/ \E saveOk \in BOOLEAN : startTimer(saveOk)
  \/ \E saveOk \in BOOLEAN : pauseTimer(saveOk)
  \/ \E saveOk \in BOOLEAN : resetTimer(saveOk)

SpecTimer == InitTimer /\ [][NextTimer]_vars

(***************************************************************************)
(* content.js: extractCodeFromDom.  SpecLines starts with the .view-line   *)
(* elements of the editor in DOM order, each with style.top, style.left    *)
(* and innerText; unitRet holds the DOM indices in sorted order and the    *)
(* code returned.                                                          *)
(***************************************************************************)
\* the most .view-line elements of an editor
MaxLines == 3
\* parsePx on the values of style.top and style.left that occur
parsePx(value) ==
  CASE value = "" -> 0
    [] value = "0px" -> 0
    [] value = "10px" -> 10
    [] value = "40px" -> 40
    [] OTHER -> 0
\* line.innerText.replace(/\u00a0/g, " "); "nbsp" stands for U+00A0
replaceNbsp(text) == [i \in 1..Len(text) |-> IF text[i] = "nbsp" THEN " " ELSE text[i]]
\* .map((line, index) => ({index, top, left, text}))
viewLines(elements) ==
  [i \in 1..Len(elements) |->
     [index |-> i - 1, top |-> parsePx(elements[i].top),
      left |-> parsePx(elements[i].left), text |-> replaceNbsp(elements[i].text)]]
\* the comparator without the test of left
compareLines_noLeft(a, b) ==
  IF a.top # b.top THEN a.top - b.top ELSE a.index - b.index
\* the comparator given to sort
compareLines(a, b) ==
  IF a.top # b.top THEN a.top - b.top
  ELSE IF a.left # b.left THEN a.left - b.left
  ELSE a.index - b.index
\* sort with that comparator: x put before the first element it precedes
RECURSIVE insertLine(_, _)
insertLine(x, sorted) ==
  IF sorted = <<>> THEN << x >>
  ELSE IF compareLines(x, Head(sorted)) < 0 THEN << x >> \o sorted
  ELSE << Head(sorted) >> \o insertLine(x, Tail(sorted))
RECURSIVE sortLines(_)
sortLines(lines) ==
  IF lines = <<>> THEN <<>>
  ELSE insertLine(lines[Len(lines)], sortLines(SubSeq(lines, 1, Len(lines) - 1)))
\* lines.join("\n")
RECURSIVE joinNewline(_)
joinNewline(texts) ==
  IF texts = <<>> THEN <<>>
  ELSE IF Len(texts) = 1 THEN texts[1]
  ELSE texts[1] \o << "\n" >> \o joinNewline(Tail(texts))
\* .trim() of a text of spaces, line feeds and other characters
RECURSIVE trimCode(_)
trimCode(s) ==
  IF s # <<>> /\ Head(s) \in {" ", "\n"} THEN trimCode(Tail(s))
  ELSE IF s # <<>> /\ s[Len(s)] \in {" ", "\n"} THEN trimCode(SubSeq(s, 1, Len(s) - 1))
  ELSE s
\* extractCodeFromDom on an editor with these elements; <<>> stands for null
extractCodeFromDom(elements) ==
  LET sorted == sortLines(viewLines(elements))
  IN [order |-> [i \in 1..Len(sorted) |-> sorted[i].index],
      code |-> trimCode(joinNewline([i \in 1..Len(sorted) |-> sorted[i].text]))]

LineElements ==
  [top : {"", "0px", "40px"}, left : {"0px", "10px"},
   text : { <<"a">>, <<"b">>, <<"c">>, <<"nbsp">> }]
LineCalls ==
  { [op |-> "call", elements |-> e]
      : e \in UNION { [1..n -> LineElements] : n \in 0..MaxLines } }

InitLines ==
  /\ now = 0
  /\ store = EmptyStore
  /\ configured = TRUE
  /\ remote = [p \in PageIds |-> NoRecord]
  /\ AppClosed
  /\ unitCall \in LineCalls
  /\ unitRet = NoCall
  /\ unitPut = [n \in Numbers |-> NoEntry]

UnitExtractCodeFromDom ==
  /\ unitCall.op = "call"
  /\ unitCall' = [unitCall EXCEPT !.op = "extractCodeFromDom"]
  /\ unitRet' = extractCodeFromDom(unitCall.elements)
  /\ UNCHANGED << now, store, configured, remote, appVars, unitPut >>

NextLines == UnitExtractCodeFromDom

SpecLines == InitLines /\ [][NextLines]_vars

(***************************************************************************)
(* content.js: findCodeInObject, isMatchingLanguage, looksLikeCode.  An    *)
(* object is the sequence of its fields in the order of Object.values; a   *)
(* field is [key, kind, str, fields] with kind "string" (its text in str), *)
(* "object" (its fields in fields) or "other".  SpecFindCode starts with   *)
(* a parsed storage value: an object with up to MaxChildren child objects. *)
(***************************************************************************)
\* the most child objects of the parsed value
MaxChildren == 2
\* looksLikeCode: trimmed.length < 10
MinCodeLength == 10
CodeKeywords == << <<"d","e","f"," ">>, <<"c","l","a","s","s"," ">>, <<"i","m","p","o","r","t"," ">> >>
looksLikeCode(text) ==
  IF text = <<>> THEN FALSE
  ELSE LET trimmed == trimCode(text)
       IN IF Len(trimmed) < MinCodeLength THEN FALSE
          ELSE \/ includes(trimmed, << "\n" >>)
               \/ \E k \in 1..Len(CodeKeywords) : includes(trimmed, CodeKeywords[k])
\* the texts of the string fields
TextDef == <<"d","e","f"," ","f","(","x",")",":"," ","1">>
TextLines == <<"x"," ","="," ","1","\n","y"," ","="," ","2","2">>
TextPlain == <<"h","e","l","l","o"," ","w","o","r","l","d">>
TextShort == <<"a","\n","b">>
TagPython == <<"P","y","t","h","o","n","3">>
TagJava == <<"j","a","v","a">>
Texts == {TextDef, TextLines, TextPlain, TextShort, TagPython, TagJava}
\* looksLikeCode and the lower-cased trimmed text of each (each computed once)
LooksLikeCode == [t \in Texts |-> looksLikeCode(t)]
LowerTrimmed == [t \in Texts |-> trimCode(toLowerCase(t))]
StringField(key, text) == [key |-> key, kind |-> "string", str |-> text, fields |-> <<>>]
ObjectField(key, fields) == [key |-> key, kind |-> "object", str |-> <<>>, fields |-> fields]
\* obj[key], a field of kind "undefined" when the object has none
fieldOf(obj, key) ==
  IF \E i \in 1..Len(obj) : obj[i].key = key
  THEN obj[CHOOSE i \in 1..Len(obj) : obj[i].key = key]
  ELSE [key |-> key, kind |-> "undefined", str |-> <<>>, fields |-> <<>>]
\* obj.language || obj.lang || obj.langSlug || obj.langSlugName || ""
\* for fields that are strings or absent
RECURSIVE firstTruthy(_, _)
firstTruthy(obj, keys) ==
  IF keys = <<>> THEN <<>>
  ELSE IF fieldOf(obj, Head(keys)).kind = "string" /\ fieldOf(obj, Head(keys)).str # <<>>
  THEN fieldOf(obj, Head(keys)).str
  ELSE firstTruthy(obj, Tail(keys))
isMatchingLanguage(obj, language) ==
  IF language = <<>> THEN TRUE
  ELSE LET tag == firstTruthy(obj, << "language", "lang", "langSlug", "langSlugName" >>)
       IN IF tag = <<>> THEN TRUE
          ELSE IF LowerTrimmed[tag] = <<>> THEN TRUE
          ELSE includes(LowerTrimmed[tag], toLowerCase(language))
\* the loop over Object.values(current) from the value at index i: the
\* string returned (<<>>: none) and the objects pushed before the return
RECURSIVE scanValues(_, _, _)
scanValues(obj, i, pushed) ==
  IF i > Len(obj) THEN [found |-> <<>>, pushed |-> pushed]
  ELSE IF obj[i].kind = "string"
  THEN IF obj[i].str # <<>> /\ LooksLikeCode[obj[i].str]
       THEN [found |-> obj[i].str, pushed |-> pushed]
       ELSE scanValues(obj, i + 1, pushed)
  ELSE IF obj[i].kind = "object"
  THEN scanValues(obj, i + 1, Append(pushed, obj[i].fields))
  ELSE scanValues(obj, i + 1, pushed)
\* the while loop of findCodeInObject on a queue of objects; <<>>: null
RECURSIVE findCodeFrom(_, _)
findCodeFrom(queue, language) ==
  IF queue = <<>> THEN <<>>
  ELSE LET current == Head(queue)
           code == fieldOf(current, "code")
       IN IF /\ code.kind = "string"
             /\ isMatchingLanguage(current, language)
             /\ code.str # <<>>
             /\ LooksLikeCode[code.str]
          THEN code.str
          ELSE LET scan == scanValues(current, 1, <<>>)
               IN IF scan.found # <<>> THEN scan.found
                  ELSE findCodeFrom(Tail(queue) \o scan.pushed, language)
findCodeInObject(obj, language) == findCodeFrom(<< obj >>, language)

\* the string fields an object of the input has: a language tag or none, a
\* code field or none, a content field or none, in this order
OptionalField(key, texts) == { <<>> } \cup { << StringField(key, t) >> : t \in texts }
FlatObjects ==
  { l \o c \o o : l \in OptionalField("language", {TagPython, TagJava}),
                  c \in OptionalField("code", {TextDef, TextPlain}),
                  o \in OptionalField("content", {TextLines, TextShort}) }
ChildLists == UNION { [1..n -> FlatObjects] : n \in 0..MaxChildren }
\* a flat object followed by its child objects, under the keys "1", "2"
ParsedValues ==
  { flat \o [i \in 1..Len(children) |-> ObjectField(ToString(i), children[i])]
      : flat \in FlatObjects, children \in ChildLists }
FindCodeCalls ==
  [op : {"call"}, obj : ParsedValues, language : { <<"p","y","t","h","o","n">> }]

InitFindCode ==
  /\ now = 0
  /\ store = EmptyStore
  /\ configured = TRUE
  /\ remote = [p \in PageIds |-> NoRecord]
  /\ AppClosed
  /\ unitCall \in FindCodeCalls
  /\ unitRet = NoCall
  /\ unitPut = [n \in Numbers |-> NoEntry]

UnitFindCodeInObject ==
  /\ unitCall.op = "call"
  /\ unitCall' = [unitCall EXCEPT !.op = "findCodeInObject"]
  /\ unitRet' = [found |-> findCodeInObject(unitCall.obj, unitCall.language)]
  /\ UNCHANGED << now, store, configured, remote, appVars, unitPut >>

NextFindCode == UnitFindCodeInObject

SpecFindCode == InitFindCode /\ [][NextFindCode]_vars

(***************************************************************************)
(* content.js: the message listener, the load listener, extractProblemData *)
(* and its session cache.  In SpecExtract unitCall holds the page (its     *)
(* pathname, which stands for its URL, and the code the editor shows) and  *)
(* the request in flight, unitPut the item "leetcode_problem_data" of      *)
(* sessionStorage, unitRet the answers given.  localStorage holds nothing. *)
(***************************************************************************)
\* the requests of one run, the ticks of its clock and the length of one
MaxRequests == 2
MaxExtractTicks == 2
ExtractTickMs == 5 * 60 * 1000
\* getCachedProblemData: ageMs < 10 * 60 * 1000
SESSION_TTL == 10 * 60 * 1000
PathTwoSum == <<"/","p","r","o","b","l","e","m","s","/","a","/">>
PathTwoSumNotes == <<"/","p","r","o","b","l","e","m","s","/","a","/","n","/">>
PathProblemSet == <<"/","p","r","o","b","l","e","m","s","e","t","/">>
Paths == {PathTwoSum, PathTwoSumNotes, PathProblemSet}
\* window.location.pathname.includes with "/problem" for "/problems/"
isProblemPage_problem(pathname) == includes(pathname, <<"/","p","r","o","b","l","e","m">>)
\* window.location.pathname.includes("/problems/")
isProblemPage(pathname) == includes(pathname, <<"/","p","r","o","b","l","e","m","s","/">>)
IsProblemPage == [p \in Paths |-> isProblemPage(p)]
\* the code of the editor: <<>> when extractCodeFromDom returns null
DomCodes == { <<>>, TextDef, TextLines }
NoCached == [url |-> <<>>]
NoExtract == [url |-> <<>>]
\* the key of the session cache passes the key test of extractCodeFromStorage
\* for every slug: it contains "code"
CacheKeyScanned ==
  includes(toLowerCase(<<"l","e","e","t","c","o","d","e","_","p","r","o","b","l","e","m","_","d","a","t","a">>), <<"c","o","d","e">>)
\* JSON.parse of the cached item, as findCodeInObject sees it: the code when
\* it is a string; the url stands for the other strings of a record, which
\* hold no newline and no keyword token
parsedItem(cached) ==
  << StringField("url", TextPlain) >>
    \o (IF cached.code # <<>> THEN << StringField("code", cached.code) >>
        ELSE << [key |-> "code", kind |-> "other", str |-> <<>>, fields |-> <<>>] >>)
\* extractCodeFromStorage: the only item of the two storages is the session
\* cache
extractCodeFromStorage(item, language) ==
  IF item = NoCached \/ ~CacheKeyScanned THEN <<>>
  ELSE findCodeInObject(parsedItem(item), language)
\* extractCode
extractCode(dom, item, language) ==
  IF dom # <<>> THEN dom ELSE extractCodeFromStorage(item, language)
\* getCachedProblemData
getCachedProblemData(item, t) ==
  IF item = NoCached THEN NoCached
  ELSE IF t - item.timestamp < SESSION_TTL THEN item
  ELSE NoCached
\* extractProblemData: what it returns or throws, and the item it leaves
extractProblemData(pathname, dom, item, t, includeCode, writeOk) ==
  IF ~IsProblemPage[pathname]
  THEN [ok |-> FALSE, data |-> NoExtract, item |-> item]
  ELSE LET cached == getCachedProblemData(item, t)
           code == IF includeCode THEN extractCode(dom, item, <<"p","y","t","h","o","n">>) ELSE <<>>
       IN IF cached # NoCached /\ cached.url = pathname
          THEN [ok |-> TRUE,
                data |-> [url |-> cached.url, timestamp |-> cached.timestamp,
                          code |-> code, fromCache |-> TRUE],
                item |-> item]
          ELSE LET data == [url |-> pathname, timestamp |-> t, code |-> code,
                            fromCache |-> FALSE]
               IN [ok |-> TRUE, data |-> data,
                   item |-> IF writeOk
                            THEN [url |-> data.url, timestamp |-> data.timestamp,
                                  code |-> data.code]
                            ELSE item]

InitExtract ==
  /\ now = 0
  /\ store = EmptyStore
  /\ configured = TRUE
  /\ remote = [p \in PageIds |-> NoRecord]
  /\ AppClosed
  /\ unitCall = [op |-> "none", pathname |-> PathProblemSet, dom |-> <<>>,
                 pending |-> "none", asked |-> 0]
  /\ unitRet = [answers |-> 0, success |-> FALSE, error |-> "none", data |-> NoExtract]
  /\ unitPut = NoCached

ExtractFrame == UNCHANGED << store, configured, remote, appVars >>

\* the tab shows another page
ExtractNavigate(pathname, dom) ==
  /\ pathname # unitCall.pathname
  /\ unitCall.pending = "none"
  /\ unitCall' = [unitCall EXCEPT !.op = "navigate", !.pathname = pathname, !.dom = dom]
  /\ UNCHANGED << now, unitRet, unitPut >>
  /\ ExtractFrame

\* the editor shows other code, or is not rendered
ExtractEdit(dom) ==
  /\ dom # unitCall.dom
  /\ unitCall' = [unitCall EXCEPT !.op = "edit", !.dom = dom]
  /\ UNCHANGED << now, unitRet, unitPut >>
  /\ ExtractFrame

ExtractTick ==
  /\ now < MaxExtractTicks * ExtractTickMs
  /\ now' = now + ExtractTickMs
  /\ unitCall' = [unitCall EXCEPT !.op = "tick"]
  /\ UNCHANGED << unitRet, unitPut >>
  /\ ExtractFrame

\* the listener of window "load": extractProblemData({includeCode: false}),
\* then sessionStorage.setItem of what it returned
ExtractOnLoad(writeOk, setOk) ==
  /\ unitCall.pending = "none"
  /\ unitCall' = [unitCall EXCEPT !.op = "load"]
  /\ LET r == extractProblemData(unitCall.pathname, unitCall.dom, unitPut, now,
                                 FALSE, writeOk)
     IN unitPut' = IF r.ok /\ setOk
                   THEN [url |-> r.data.url, timestamp |-> r.data.timestamp,
                         code |-> r.data.code]
                   ELSE r.item
  /\ UNCHANGED << now, unitRet >>
  /\ ExtractFrame

\* the message listener receives {action: "extractProblemData", includeCode}
ExtractReceive(includeCode) ==
  /\ unitCall.pending = "none"
  /\ unitCall.asked < MaxRequests
  /\ unitCall' = [unitCall EXCEPT !.op = "receive",
                                  !.pending = IF includeCode THEN "code" ELSE "nocode",
                                  !.asked = @ + 1]
  /\ UNCHANGED << now, unitRet, unitPut >>
  /\ ExtractFrame

\* extractProblemData settles and the listener calls sendResponse
ExtractSettle(writeOk) ==
  /\ unitCall.pending # "none"
  /\ unitCall' = [unitCall EXCEPT !.op = "settle", !.pending = "none"]
  /\ LET r == extractProblemData(unitCall.pathname, unitCall.dom, unitPut, now,
                                 unitCall.pending = "code", writeOk)
     IN /\ unitPut' = r.item
        /\ unitRet' = [answers |-> unitRet.answers + 1, success |-> r.ok,
                       error |-> IF r.ok THEN "none" ELSE "Not on a LeetCode problem page",
                       data |-> r.data]
  /\ UNCHANGED now
  /\ ExtractFrame

NextExtract ==
  \/ \E pathname \in Paths, dom \in DomCodes : ExtractNavigate(pathname, dom)
  \/ \E dom \in DomCodes : ExtractEdit(dom)
  \/ ExtractTick
  \/ \E writeOk, setOk \in BOOLEAN : ExtractOnLoad(writeOk, setOk)
  \/ \E includeCode \in BOOLEAN : ExtractReceive(includeCode)
  \/ \E writeOk \in BOOLEAN : ExtractSettle(writeOk)

SpecExtract == InitExtract /\ [][NextExtract]_vars

(***************************************************************************)
(* popup.js: what checkForDuplicate reads of the record.  SpecKey starts   *)
(* with two records (number, title, url, slug), the items of               *)
(* chrome.storage.local by key, the pages of the database and how the two  *)
(* fetches settle, and runs the duplicate check on each record.            *)
(***************************************************************************)
\* the problem numbers of the records (0: no number)
KeyNumbers == {0, 1, 12}
\* the time of the check and the timestamps of a fresh and an expired entry
KeyNow == CACHE_TTL + 1
\* String(n) of a positive integer
RECURSIVE toString(_)
toString(n) ==
  IF n < 10 THEN << Digits[n + 1] >>
  ELSE toString(n \div 10) \o << Digits[(n % 10) + 1] >>
\* `problem_${problemNumber}`
cacheKey(problemNumber) == <<"p","r","o","b","l","e","m","_">> \o toString(problemNumber)
\* the key of the cache built of the slug of the record
cacheKeyOf_slug(data) == <<"p","r","o","b","l","e","m","_">> \o data.slug
\* the key checkForDuplicate reads and writes for the record
cacheKeyOf(data) == cacheKey(data.number)
\* the filter of the query findPageInNotion sends
queryFilter(numberProp, problemNumber) ==
  [property |-> numberProp.name, equals |-> problemNumber]
KeyRecords ==
  [number : KeyNumbers, title : {"Two Sum", "1. Two Sum"},
   url : {"/problems/two-sum/", "/problems/two-sum"}, slug : { <<"a">>, <<"b">> }]
KeySpace == { cacheKey(n) : n \in KeyNumbers \ {0} } \cup { <<"p","r","o","b","l","e","m","_">> \o s : s \in { <<"a">>, <<"b">> } }
KeyEntry(p, t) == [pageId |-> p, url |-> PageUrl(p), timestamp |-> t]
\* the stored items: none, a fresh or an expired entry for number 1, a fresh
\* entry for number 12, a fresh entry under a key built of a slug
KeyItems ==
  { [k \in KeySpace |-> NoEntry],
    [k \in KeySpace |-> IF k = cacheKey(1) THEN KeyEntry(1, 1) ELSE NoEntry],
    [k \in KeySpace |-> IF k = cacheKey(1) THEN KeyEntry(1, 0) ELSE NoEntry],
    [k \in KeySpace |-> IF k = cacheKey(12) THEN KeyEntry(2, 1) ELSE NoEntry],
    [k \in KeySpace |-> IF k = <<"p","r","o","b","l","e","m","_">> \o <<"a">> THEN KeyEntry(2, 1) ELSE NoEntry] }
\* the pages of the database: none, a live page of number 1, an archived
\* page of number 1 before a live one of number 12, a live page of number 12
KeyDatabases ==
  { << NoRecord, NoRecord >>,
    << [number |-> 1, status |-> "live"], NoRecord >>,
    << [number |-> 1, status |-> "gone"], [number |-> 12, status |-> "live"] >>,
    << [number |-> 12, status |-> "live"], NoRecord >> }
\* how the schema fetch and the query settle
KeyEnvs ==
  { [o |-> "ok", schema |-> SchemaFull, qo |-> "ok"],
    [o |-> "ok", schema |-> SchemaFull, qo |-> "reject"],
    [o |-> "ok", schema |-> SchemaNoNumber, qo |-> "ok"],
    [o |-> "notok", schema |-> SchemaFull, qo |-> "ok"] }
\* no query is sent
NoFilter == [property |-> <<>>, equals |-> 0]
\* checkForDuplicate for the record: the key it reads, the filter it sends
\* (or NoFilter) and the page it finds ("unknown": no number; NoPage: not found)
checkForDuplicateOf(data, items, db, env) ==
  IF data.number = 0
  THEN [key |-> <<>>, filter |-> NoFilter, page |-> "unknown"]
  ELSE LET key == cacheKeyOf(data)
           cached == items[key]
           hit == cached # NoEntry /\ ~(KeyNow - cached.timestamp > CACHE_TTL)
       IN IF hit THEN [key |-> key, filter |-> NoFilter, page |-> cached.pageId]
          ELSE IF env.o # "ok" \/ Resolved[env.schema].number = NoProp
          THEN [key |-> key, filter |-> NoFilter, page |-> NoPage]
          ELSE LET filter == queryFilter(Resolved[env.schema].number, data.number)
                   results == { p \in 1..Len(db) : db[p].number = filter.equals
                                                   /\ db[p].status # "unused" }
                   first == IF results = {} THEN NoPage
                            ELSE CHOOSE p \in results : \A r \in results : p <= r
                   view == IF first = NoPage THEN "deleted"
                           ELSE IF db[first].status = "live" THEN "live" ELSE "archived"
               IN [key |-> key, filter |-> filter,
                   page |-> IF env.qo = "ok" THEN pageOfQuery(first, view) ELSE NoPage]
KeyCalls ==
  [op : {"call"}, a : KeyRecords, b : KeyRecords, items : KeyItems,
   db : KeyDatabases, env : KeyEnvs]

InitKey ==
  /\ now = 0
  /\ store = EmptyStore
  /\ configured = TRUE
  /\ remote = [p \in PageIds |-> NoRecord]
  /\ AppClosed
  /\ unitCall \in KeyCalls
  /\ unitRet = NoCall
  /\ unitPut = [n \in Numbers |-> NoEntry]

UnitCheckForDuplicate ==
  /\ unitCall.op = "call"
  /\ unitCall' = [unitCall EXCEPT !.op = "checkForDuplicate"]
  /\ unitRet' = [a |-> checkForDuplicateOf(unitCall.a, unitCall.items, unitCall.db, unitCall.env),
                 b |-> checkForDuplicateOf(unitCall.b, unitCall.items, unitCall.db, unitCall.env)]
  /\ UNCHANGED << now, store, configured, remote, appVars, unitPut >>

NextKey == UnitCheckForDuplicate

SpecKey == InitKey /\ [][NextKey]_vars

(***************************************************************************)
(* The initialization of the content script (part_000 1-6, 450-477): the   *)
(* script may be injected into a document more than once (by the manifest  *)
(* and by chrome.scripting.executeScript of the popup); its global flag    *)
(* lives as long as the document.                                          *)
(***************************************************************************)
MaxInjections == 3
MaxNavigations == 2
MessageActions == {"extractProblemData", "other"}

\* the script body with the flag test removed: every run registers
runContentScript_unguarded(page) ==
  [page EXCEPT !.loaded = TRUE, !.listeners = @ + 1, !.loadHandlers = @ + 1]

\* one run of the script body in a document whose globals are page
runContentScript(page) ==
  IF page.loaded
  THEN page
  ELSE [page EXCEPT !.loaded = TRUE, !.listeners = @ + 1, !.loadHandlers = @ + 1]

\* a document no script has run in
NewDocument == [loaded |-> FALSE, listeners |-> 0, loadHandlers |-> 0]

InitInject ==
  /\ now = 0
  /\ store = EmptyStore
  /\ configured = TRUE
  /\ remote = [p \in PageIds |-> NoRecord]
  /\ AppClosed
  /\ unitCall = [op |-> "none", injections |-> 0, here |-> 0, navigations |-> 0,
                 sent |-> 0, action |-> "none"]
  /\ unitRet = [waiting |-> 0, responses |-> 0]
  /\ unitPut = NewDocument

InjectFrame == UNCHANGED << now, store, configured, remote, appVars >>

\* content.js is run in the tab's document
InjectContentScript ==
  /\ unitCall.injections < MaxInjections
  /\ unitCall' = [unitCall EXCEPT !.op = "inject", !.injections = @ + 1,
                                  !.here = @ + 1]
  /\ unitPut' = runContentScript(unitPut)
  /\ UNCHANGED unitRet
  /\ InjectFrame

\* the tab loads another document: its globals and listeners are new, and
\* nobody waits for the answers of the old one
InjectNavigate ==
  /\ unitCall.navigations < MaxNavigations
  /\ unitCall' = [unitCall EXCEPT !.op = "navigate", !.navigations = @ + 1,
                                  !.here = 0, !.action = "none"]
  /\ unitPut' = NewDocument
  /\ unitRet' = [waiting |-> 0, responses |-> 0]
  /\ InjectFrame

\* chrome.tabs.sendMessage delivers a message to every registered listener:
\* a listener answers asynchronously for "extractProblemData" and ignores
\* everything else
InjectSend(action) ==
  /\ unitCall.sent < MaxRequests
  /\ unitRet.waiting = 0
  /\ unitPut.listeners > 0
  /\ unitCall' = [unitCall EXCEPT !.op = "send", !.sent = @ + 1, !.action = action]
  /\ unitRet' = [waiting |-> IF action = "extractProblemData"
                             THEN unitPut.listeners ELSE 0,
                 responses |-> 0]
  /\ UNCHANGED unitPut
  /\ InjectFrame

\* the promise of one listener settles: sendResponse is called
InjectRespond ==
  /\ unitRet.waiting > 0
  /\ unitCall' = [unitCall EXCEPT !.op = "respond"]
  /\ unitRet' = [waiting |-> unitRet.waiting - 1, responses |-> unitRet.responses + 1]
  /\ UNCHANGED unitPut
  /\ InjectFrame

NextInject ==
  \/ InjectContentScript
  \/ InjectNavigate
  \/ \E action \in MessageActions : InjectSend(action)
  \/ InjectRespond

SpecInject == InitInject /\ [][NextInject]_vars

(***************************************************************************)
(* extractDifficulty and extractTags (part_000 111-199).  A page is what   *)
(* the selectors and the scripts of the document give: for the difficulty  *)
(* the text of the first element of each selector that matches (in the     *)
(* order of the selectors) and the word the first script with a            *)
(* "difficulty":"<word>" holds; for the tags the elements of each selector *)
(* and the names in the first "topicTags":[...] of a script.               *)
(***************************************************************************)
MaxElements == 2
toUpperCaseChar(c) ==
  IF \E k \in 1..26 : LowerAlpha[k] = c
  THEN UpperAlpha[CHOOSE k \in 1..26 : LowerAlpha[k] = c]
  ELSE c
\* match[1].charAt(0).toUpperCase() + match[1].slice(1).toLowerCase()
capitalize(word) ==
  IF word = <<>> THEN <<>>
  ELSE << toUpperCaseChar(Head(word)) >> \o toLowerCase(Tail(word))

Easy == <<"E","a","s","y">>
Medium == <<"M","e","d","i","u","m">>
Hard == <<"H","a","r","d">>
Unknown == <<"U","n","k","n","o","w","n">>
\* the difficulty a text names: the first of easy, medium, hard it contains
\* (<<>>: none); "jian" "dan", "zhong" "deng", "kun" "nan" stand for the
\* characters of the Chinese words the code also looks for
difficultyOfText(text) ==
  LET lower == toLowerCase(text)
  IN IF includes(lower, <<"e","a","s","y">>) \/ includes(lower, <<"jian", "dan">>) THEN Easy
     ELSE IF includes(lower, <<"m","e","d","i","u","m">>) \/ includes(lower, <<"zhong", "deng">>)
     THEN Medium
     ELSE IF includes(lower, <<"h","a","r","d">>) \/ includes(lower, <<"kun", "nan">>) THEN Hard
     ELSE <<>>

\* the loop over the selectors, from the i-th matching element on
RECURSIVE difficultyFromDom(_, _)
difficultyFromDom(elements, i) ==
  IF i > Len(elements) THEN <<>>
  ELSE IF difficultyOfText(elements[i]) # <<>> THEN difficultyOfText(elements[i])
  ELSE difficultyFromDom(elements, i + 1)

\* extractDifficulty: scriptWord is the word matched in the scripts (<<>>:
\* no script matches)
extractDifficulty(elements, scriptWord) ==
  IF difficultyFromDom(elements, 1) # <<>> THEN difficultyFromDom(elements, 1)
  ELSE IF scriptWord # <<>> THEN capitalize(scriptWord)
  ELSE Unknown

contains(tags, tag) == \E k \in 1..Len(tags) : tags[k] = tag
\* elements.forEach: push the trimmed text that is not empty and not yet in
\* tags
RECURSIVE pushTags(_, _, _)
pushTags(tags, elements, i) ==
  IF i > Len(elements) THEN tags
  ELSE LET tag == trim(elements[i])
       IN pushTags(IF tag # <<>> /\ ~contains(tags, tag) THEN Append(tags, tag) ELSE tags,
                   elements, i + 1)
\* the loop over the selectors: stops after the first one that gave a tag
RECURSIVE tagsFromDom(_, _)
tagsFromDom(selectors, i) ==
  IF i > Len(selectors) THEN <<>>
  ELSE IF pushTags(<<>>, selectors[i], 1) # <<>> THEN pushTags(<<>>, selectors[i], 1)
  ELSE tagsFromDom(selectors, i + 1)

\* extractTags: scriptNames are the names of the "topicTags" array matched
\* in the scripts, in its order
extractTags(selectors, scriptNames) ==
  IF tagsFromDom(selectors, 1) # <<>> THEN tagsFromDom(selectors, 1)
  ELSE scriptNames

DifficultyTexts == { <<"E","a","s","y">>, <<"M","E","D","I","U","M",".">>, <<"P","r","e","m","i","u","m">>, <<"kun", "nan">> }
ScriptWords == { <<>>, <<"H","a","r","d">>, <<"E","A","S","Y">>, <<"A","l","l">> }
TagTexts == { <<"A","r","r","a","y">>, <<" ","A","r","r","a","y"," ">>, <<"T","r","e","e">>, <<" ">> }
TagNames == { <<"A","r","r","a","y">>, <<"T","r","e","e">> }
SeqsUpTo(S, n) == UNION { [1..k -> S] : k \in 0..n }
RecordCalls ==
  [op : {"extractDifficulty"}, elements : SeqsUpTo(DifficultyTexts, MaxElements),
   script : ScriptWords]
  \cup [op : {"extractTags"},
        elements : [1..2 -> SeqsUpTo(TagTexts, MaxElements)],
        script : SeqsUpTo(TagNames, MaxElements)]

InitRecord ==
  /\ now = 0
  /\ store = EmptyStore
  /\ configured = TRUE
  /\ remote = [p \in PageIds |-> NoRecord]
  /\ AppClosed
  /\ unitCall \in RecordCalls
  /\ unitRet = [done |-> FALSE, value |-> <<>>]
  /\ unitPut = NoCached

UnitExtractDifficulty ==
  /\ unitCall.op = "extractDifficulty"
  /\ ~unitRet.done
  /\ unitRet' = [done |-> TRUE,
                 value |-> extractDifficulty(unitCall.elements, unitCall.script)]
  /\ UNCHANGED << now, store, configured, remote, appVars, unitCall, unitPut >>

UnitExtractTags ==
  /\ unitCall.op = "extractTags"
  /\ ~unitRet.done
  /\ unitRet' = [done |-> TRUE,
                 value |-> extractTags(unitCall.elements, unitCall.script)]
  /\ UNCHANGED << now, store, configured, remote, appVars, unitCall, unitPut >>

NextRecord == UnitExtractDifficulty \/ UnitExtractTags

SpecRecord == InitRecord /\ [][NextRecord]_vars

(***************************************************************************)
(* Claims.                                                                 *)
(***************************************************************************)
LiveRecords(n) ==
  { p \in PageIds : remote[p].number = n /\ remote[p].status = "live" }
RemoteCalls == {"schema", "query", "exists"}
\* no invocation of saveProblem has run in this popup
NoSaveYet == saveResult = "none" /\ \A i \in Saves : savePc[i] = "idle"

(* C1: a problem whose number matches a live record of the database never  *)
(* gets a second record: at any time at most one live record holds a given *)
(* problem number.                                                         *)
C1_NoSecondRecord ==
  \A n \in Numbers : Cardinality(LiveRecords(n)) <= 1

(* C2: when the query of a duplicate check (present number, cache miss)    *)
(* answers with a first result X that is neither archived nor trashed, the *)
(* check sets notionPageId = X and notionPageUrl = X's url, shows the      *)
(* badge, writes the entry {X, url, now} under the number's key, and ends  *)
(* in Found without touching them again.                                   *)
C2_QueryFound ==
  /\ [][ (checkPc = "query" /\ checkSeen'.o = "ok" /\ checkSeen'.first # NoPage
            /\ checkSeen'.view = "live")
         => /\ checkPc' = "cachePut"
            /\ notionPageId' = checkSeen'.first
            /\ notionPageUrl' = PageUrl(checkSeen'.first)
            /\ badge'
            /\ store'[problemData] = [pageId |-> checkSeen'.first,
                                      url |-> PageUrl(checkSeen'.first),
                                      timestamp |-> now] ]_vars
  /\ [][ (checkPc = "cachePut" /\ checkPc' # "cachePut" /\ open')
         => /\ checkPc' = "found"
            /\ UNCHANGED << store, uiVars >> ]_vars

C2_Witness ==
  /\ checkPc = "found"
  /\ checkSeen = Seen("ok", notionPageId, "live")
  /\ notionPageUrl = PageUrl(notionPageId)
  /\ store[problemData].pageId = notionPageId
  /\ store[problemData].url = notionPageUrl

(* C3: when the background check of a cached page comes back with a        *)
(* non-success status (404), or with the page archived or trashed, the     *)
(* cache entry of the number is removed at once, and from then on the      *)
(* popup eventually holds no page id, no page url and no badge.            *)
C3_AbsentEvicts ==
  /\ [][ (valPc = "fetch" /\ valSeen' \in {"notok", "archived", "trashed"})
         => (valPc' = "remove" /\ store'[problemData] = NoEntry) ]_vars
  /\ ( (valPc = "remove" /\ valSeen \in {"notok", "archived", "trashed"})
       ~> (notionPageId = NoPage /\ notionPageUrl = NoUrl /\ ~badge) )

C3_Witness ==
  /\ valPc = "evicted"
  /\ valSeen \in {"notok", "archived", "trashed"}
  /\ remote[valPageId].status = "gone"
  /\ notionPageId = NoPage
  /\ notionPageUrl = NoUrl
  /\ store[problemData] = NoEntry

(* C4: when the fetch of the background check rejects (network error), the *)
(* validation evicts nothing: it does not remove the cache entry and does  *)
(* not clear the page id.                                                  *)
C4_NetworkErrorKeepsFound ==
  valSeen = "reject" => (valPc = "kept" /\ store[problemData] # NoEntry)

(* C5: a duplicate check issues no remote call before its cache lookup has *)
(* settled; a cache hit happens on a non-expired entry only, sets the page *)
(* id and url to the cached ones, shows the badge and issues the existence *)
(* check GET /pages/{id} as its only remote call: no schema fetch and no   *)
(* query; a readable non-expired entry always makes a hit.                 *)
C5_CacheFirst ==
  /\ [](checkPc \in {"extract", "settings", "cache"} => checkCalls \cap RemoteCalls = {})
  /\ [](checkCalls \cap RemoteCalls # {} => "cache" \in checkCalls)
  /\ [](checkPc = "hit" => checkCalls = {"settings", "cache", "exists"})
  /\ [][ (checkPc = "cache" /\ checkPc' = "hit")
         => /\ store[problemData] # NoEntry
            /\ now - store[problemData].timestamp <= CACHE_TTL
            /\ notionPageId' = store[problemData].pageId
            /\ notionPageUrl' = store[problemData].url
            /\ badge'
            /\ valPc' = "fetch"
            /\ valPageId' = store[problemData].pageId
            /\ store' = store ]_vars
  /\ [][ (checkPc = "cache" /\ checkPc' \notin {"cache", "closed", "caught"}
            /\ store[problemData] # NoEntry
            /\ now - store[problemData].timestamp <= CACHE_TTL)
         => checkPc' = "hit" ]_vars
  /\ [][ checkPc = "hit" => checkPc' \in {"hit", "closed"} ]_vars

\* Found is rendered while the existence check is still in flight
C5_Witness ==
  /\ checkPc = "hit"
  /\ valPc = "fetch"
  /\ badge
  /\ notionPageId = valPageId
  /\ notionPageId = store[problemData].pageId

C7_CheckContained ==
  /\ checkPc # "threw"
  /\ checkSeen.o \in {"storage", "reject", "notok", "noprop"}
       => /\ checkPc \in {"notfound", "caught"}
          /\ NoSaveYet => statusMsg # "error"

(* C8: a successful POST /pages of a save creates one live page; for a     *)
(* record with a number the save writes the entry {page id, page url, now} *)
(* under the number's key, and when it ends it has set notionPageId and    *)
(* notionPageUrl to the created page's id and url and shows the badge.     *)
C8_CreateFound ==
  [][ /\ \A q \in PageIds :
           (remote[q].status = "unused" /\ remote'[q].status = "live")
           => \E i \in Saves :
                /\ savePc[i] = "post"
                /\ problemData # 0 =>
                     /\ savePc'[i] = "cachePut"
                     /\ saveLocal'[i].page = q
                     /\ store'[problemData] = [pageId |-> q, url |-> PageUrl(q),
                                               timestamp |-> now]
                /\ problemData = 0 =>
                     /\ saveResult' = "created"
                     /\ notionPageId' = q
                     /\ notionPageUrl' = PageUrl(q)
      /\ \A i \in Saves :
           (savePc[i] = "cachePut" /\ savePc'[i] = "idle" /\ open')
           => /\ saveResult' = "created"
              /\ notionPageId' = saveLocal[i].page
              /\ notionPageUrl' = PageUrl(saveLocal[i].page)
              /\ badge'
              /\ statusMsg' = "success" ]_vars

C8_Witness ==
  /\ saveResult = "created"
  /\ problemData \in Numbers
  /\ notionPageId # NoPage
  /\ remote[notionPageId].status = "live"
  /\ notionPageUrl = PageUrl(notionPageId)
  /\ store[problemData].pageId = notionPageId
  /\ store[problemData].url = notionPageUrl

(* C9: a save that failed shows an error message, and after a save that    *)
(* created the remote record, as long as a live record holds the problem's *)
(* number, the app holds a page id (it does not treat the problem as not   *)
(* saved).                                                                 *)
C9_SaveNeverPartial ==
  /\ saveResult = "failed" => statusMsg = "error"
  /\ (saveResult = "created" /\ problemData \in Numbers
        /\ LiveRecords(problemData) # {})
       => notionPageId # NoPage

(* C10: getCachedPage(n) called at a time at most CACHE_TTL after the last  *)
(* cachePage(n, id, url) returns an entry with that id and that url.       *)
C10_RoundTrip ==
  ( /\ unitCall.op = "getCachedPage"
    /\ unitPut[unitCall.n] # NoEntry
    /\ unitCall.t - unitPut[unitCall.n].timestamp <= CACHE_TTL )
  => /\ unitRet.pageId = unitPut[unitCall.n].pageId
     /\ unitRet.url = unitPut[unitCall.n].url

\* a read exactly one TTL after the write
C10_Witness ==
  /\ unitCall.op = "getCachedPage"
  /\ unitPut[unitCall.n] # NoEntry
  /\ unitCall.t - unitPut[unitCall.n].timestamp = CACHE_TTL
  /\ unitRet.pageId = unitPut[unitCall.n].pageId
  /\ unitRet.url = unitPut[unitCall.n].url
  /\ unitRet.url # PageUrl(unitRet.pageId)

(* C11: a call of getCachedPage that finds an entry older than CACHE_TTL    *)
(* returns absent and leaves the key removed; a call that finds no entry   *)
(* (as the call after it does) returns absent; whatever getCachedPage      *)
(* returns is at most CACHE_TTL old at the call.                           *)
C11_Expiry ==
  unitCall.op = "getCachedPage"
  => /\ ( /\ unitCall.found # NoEntry
          /\ unitCall.t - unitCall.found.timestamp > CACHE_TTL )
        => (unitRet = NoEntry /\ store[unitCall.n] = NoEntry)
     /\ unitCall.found = NoEntry => (unitRet = NoEntry /\ store[unitCall.n] = NoEntry)
     /\ unitRet # NoEntry
        => (unitRet = unitCall.found /\ unitCall.t - unitRet.timestamp <= CACHE_TTL)

\* the second read of an entry that had expired: the first one removed it
C11_Witness ==
  /\ unitCall.op = "getCachedPage"
  /\ unitCall.found = NoEntry
  /\ unitPut[unitCall.n] # NoEntry
  /\ unitCall.t - unitPut[unitCall.n].timestamp > CACHE_TTL
  /\ unitRet = NoEntry
  /\ store[unitCall.n] = NoEntry

\* the matching rule, for the property at index i of the last call
NameEquals(i) ==
  \E a \in 1..Len(unitCall.aliases) :
    toLowerCase(unitCall.properties[i].name) = toLowerCase(unitCall.aliases[a])
NameContains(i) ==
  \E a \in 1..Len(unitCall.aliases) :
    includes(toLowerCase(unitCall.properties[i].name), toLowerCase(unitCall.aliases[a]))
TypeAllowed(i) ==
  unitCall.allowedTypes = {} \/ unitCall.properties[i].type \in unitCall.allowedTypes
Satisfying ==
  { i \in 1..Len(unitCall.properties) :
      (NameEquals(i) \/ NameContains(i)) /\ TypeAllowed(i) }

(* C12: findProperty returns the name and type of the first property, in   *)
(* the schema's order, whose lower-cased name equals or contains a         *)
(* lower-cased alias and whose type is allowed (or no type is asked for),  *)
(* and absent exactly when no property satisfies that.                     *)
C12_FirstMatch ==
  unitCall.op = "findProperty"
  => /\ unitRet = NoProp <=> Satisfying = {}
     /\ Satisfying # {}
        => \E i \in Satisfying :
             /\ \A j \in Satisfying : i <= j
             /\ unitRet = [name |-> unitCall.properties[i].name,
                           type |-> unitCall.properties[i].type]

\* a match that is not the first property, after one excluded by its type
C12_Witness ==
  /\ unitCall.op = "findProperty"
  /\ Len(unitCall.properties) = 3
  /\ unitCall.allowedTypes = {"number"}
  /\ NameEquals(1) /\ ~TypeAllowed(1)
  /\ ~NameContains(2)
  /\ unitRet = [name |-> unitCall.properties[3].name, type |-> "number"]
  /\ ~NameEquals(3)

(* C13: when one allowed property's name equals an alias and another       *)
(* allowed property's name only contains one, findProperty returns a       *)
(* property whose name equals an alias.                                    *)
C13_ExactPreferred ==
  ( /\ unitCall.op = "findProperty"
    /\ \E i \in Satisfying : NameEquals(i)
    /\ \E j \in Satisfying : ~NameEquals(j) )
  => \E i \in Satisfying :
       /\ NameEquals(i)
       /\ unitRet = [name |-> unitCall.properties[i].name,
                     type |-> unitCall.properties[i].type]

\* the schema a save has just fetched has no title-typed property
NoTitleSeen(seen) ==
  /\ seen.o = "ok"
  /\ \A k \in 1..Len(seen.schema) : seen.schema[k].type # "title"

(* C14: when the schema fetch of a create settles, the save ends with the  *)
(* error "No title property found in database" exactly when the fetch      *)
(* succeeded with a schema that has no title-typed property; it then       *)
(* issues no POST /pages, creates no page and leaves the store unchanged.  *)
(* With a fetched schema that has a title-typed property the POST is       *)
(* issued with the title under the name of a title-typed property.         *)
C14_TitleRequired ==
  [][ \A i \in Saves :
        (savePc[i] = "schema" /\ savePc'[i] # "schema" /\ open')
        => /\ (savePc'[i] = "idle" /\ errorText' = "noTitle") <=> NoTitleSeen(saveSeen')
           /\ NoTitleSeen(saveSeen')
              => /\ saveResult' = "failed"
                 /\ statusMsg' = "error"
                 /\ store' = store
                 /\ remote' = remote
           /\ (saveSeen'.o = "ok" /\ ~NoTitleSeen(saveSeen'))
              => /\ savePc'[i] = "post"
                 /\ \E k \in 1..Len(saveSeen'.schema) :
                      /\ saveSeen'.schema[k].type = "title"
                      /\ saveLocal'[i].title = saveSeen'.schema[k].name ]_vars

\* a create on the empty schema has failed with the title error
C14_Witness ==
  /\ saveResult = "failed"
  /\ errorText = "noTitle"
  /\ saveSeen = SchemaSeen("ok", SchemaEmpty)
  /\ \A i \in Saves : savePc[i] = "idle"
  /\ \A p \in PageIds : remote[p].status = "unused"
  /\ store = EmptyStore

\* the property at index k of a schema is a checkbox whose name equals or
\* contains an alias of one of the two flags
FlagCheckbox(schema, k) ==
  /\ schema[k].type = "checkbox"
  /\ \E aliases \in {NeededHintAliases, CanRedoAliases} :
       \E a \in 1..Len(aliases) :
         includes(toLowerCase(schema[k].name), toLowerCase(aliases[a]))
\* the indices of those properties in each schema (each computed once)
FlagCheckboxes == [s \in Schemas |-> { k \in 1..Len(s) : FlagCheckbox(s, k) }]
NoFlagSeen(seen) ==
  /\ seen.o = "ok"
  /\ FlagCheckboxes[seen.schema] = {}

(* C15: when the schema fetch of an update settles, the update ends with   *)
(* the checkbox-property error exactly when the fetch succeeded and no     *)
(* checkbox property resolves for either flag, and then no PATCH is        *)
(* issued; otherwise the PATCH is issued with a body that is not empty     *)
(* and holds only checkbox-typed properties of the schema named after one  *)
(* of the two flags; the body is not changed while the PATCH is in flight. *)
C15_PatchOnlyCheckboxes ==
  [][ \A i \in Saves :
        /\ (savePc[i] = "updSchema" /\ savePc'[i] # "updSchema" /\ open')
           => /\ (savePc'[i] = "idle" /\ errorText' = "noCheckbox")
                   <=> NoFlagSeen(saveSeen')
              /\ NoFlagSeen(saveSeen') => (saveResult' = "failed" /\ statusMsg' = "error")
              /\ (saveSeen'.o = "ok" /\ ~NoFlagSeen(saveSeen'))
                 => /\ savePc'[i] = "patch"
                    /\ saveLocal'[i].patch # {}
                    /\ \A name \in saveLocal'[i].patch :
                         \E k \in FlagCheckboxes[saveSeen'.schema] :
                           saveSeen'.schema[k].name = name
        /\ (savePc[i] = "patch" /\ savePc'[i] = "patch")
           => saveLocal'[i].patch = saveLocal[i].patch
        /\ savePc'[i] = "patch" => savePc[i] \in {"updSchema", "patch"} ]_vars

\* a PATCH in flight for the two flags of a schema with a third checkbox
C15_Witness ==
  \E i \in Saves :
    /\ savePc[i] = "patch"
    /\ saveSeen = SchemaSeen("ok", SchemaFull)
    /\ saveLocal[i].patch = { <<"N","e","e","d","e","d"," ","h","i","n","t">>,
                              <<"R","e","d","o">> }

\* the payload of the last call holds a value built from the field at
\* index k of FieldConfigs
Present(k) ==
  \E name \in DOMAIN unitRet.properties :
    unitRet.properties[name].field = FieldConfigs[k].field

(* C16: in the payload buildNotionProperties returns, a logical field is   *)
(* present exactly when its property resolves in the schema and the        *)
(* property is a checkbox or the field's value is truthy; a present        *)
(* checkbox field carries "true" or "false" after its value.               *)
C16_FieldPresence ==
  (unitCall.op = "buildNotionProperties" /\ unitRet.error = "none")
  => \A k \in 1..Len(FieldConfigs) :
       LET prop == ResolvedField[unitCall.schema][k]
           field == FieldConfigs[k].field
       IN /\ Present(k)
               <=> (prop # NoProp /\ (prop.type = "checkbox" \/ field \in unitCall.data))
          /\ (Present(k) /\ prop.type = "checkbox")
               => unitRet.properties[prop.name].value =
                    (IF field \in unitCall.data THEN "true" ELSE "false")

(* C17: for a non-empty source code buildNotionChildren returns one code   *)
(* block; each of its runs holds at least 1 and at most 2000 characters,   *)
(* every run but the last holds 2000, and the runs in order are the code:  *)
(* character j of run r is character (r - 1) * 2000 + j of the code and    *)
(* the lengths add up to the code's.  For an empty or absent code it       *)
(* returns no block and the request body has no children.                  *)
C17_Chunks ==
  unitCall.op = "buildNotionChildren"
  => IF unitCall.code = << >>
     THEN unitRet.children = << >> /\ ~unitRet.inBody
     ELSE /\ Len(unitRet.children) = 1
          /\ unitRet.inBody
          /\ unitRet.children[1].type = "code"
          /\ LET runs == unitRet.children[1].rich_text
                 last == Len(runs)
             IN /\ last >= 1
                /\ \A r \in 1..last :
                     /\ Len(runs[r]) >= 1
                     /\ Len(runs[r]) <= 2000
                     /\ r < last => Len(runs[r]) = 2000
                     /\ \A j \in 1..Len(runs[r]) :
                          runs[r][j] = unitCall.code[(r - 1) * 2000 + j]
                /\ (last - 1) * 2000 + Len(runs[last]) = Len(unitCall.code)

\* two full runs and a last run of one character
C17_Witness ==
  /\ unitCall.op = "buildNotionChildren"
  /\ Len(unitCall.code) = 4001
  /\ Len(unitRet.children) = 1
  /\ Len(unitRet.children[1].rich_text) = 3
  /\ Len(unitRet.children[1].rich_text[2]) = 2000
  /\ unitRet.children[1].rich_text[3] = << 4001 >>

\* the property at index k of a schema is number-typed and its name equals
\* or contains an alias of the problem number
NumberProp(schema, k) ==
  /\ schema[k].type = "number"
  /\ \E a \in 1..Len(NumberAliases) :
       includes(toLowerCase(schema[k].name), toLowerCase(NumberAliases[a]))
\* the indices of those properties in each schema (each computed once)
NumberProps == [s \in Schemas |-> { k \in 1..Len(s) : NumberProp(s, k) }]
\* the names of the title-typed properties of each schema
TitleNames == [s \in Schemas |-> { s[k].name : k \in { j \in 1..Len(s) : s[j].type = "title" } }]

(* C18: a POST /pages, a PATCH /pages/{id} and a database query are each   *)
(* issued only by the step in which the GET /databases/{id} of the same    *)
(* operation settles, and only when that GET succeeded; what is sent is    *)
(* decided by the schema of that response alone: the create's title key    *)
(* and number, the update's checkbox names, and whether the query is       *)
(* issued (the number property resolves in it).  A later operation does    *)
(* not reuse the result: every create, update and remote query starts at   *)
(* its own schema fetch.                                                   *)
C18_SchemaPerCall ==
  [][ /\ \A i \in Saves :
           /\ (savePc'[i] = "post" /\ savePc[i] # "post")
              => /\ savePc[i] = "schema"
                 /\ saveSeen'.o = "ok"
                 /\ saveLocal'[i].title \in TitleNames[saveSeen'.schema]
                 /\ saveLocal'[i].num =
                      IF NumberProps[saveSeen'.schema] # {} THEN problemData ELSE 0
           /\ (savePc'[i] = "patch" /\ savePc[i] # "patch")
              => /\ savePc[i] = "updSchema"
                 /\ saveSeen'.o = "ok"
                 /\ saveLocal'[i].patch =
                      { saveSeen'.schema[k].name : k \in FlagCheckboxes[saveSeen'.schema] }
           /\ (savePc[i] \in {"schema", "updSchema"} /\ savePc'[i] # savePc[i]
               /\ open' /\ saveSeen'.o # "ok")
              => /\ savePc'[i] = "idle"
                 /\ errorText' = "schema"
                 /\ remote' = remote
      /\ (checkPc' = "query" /\ checkPc # "query")
         => /\ checkPc = "schema"
            /\ checkSchema'.o = "ok"
            /\ NumberProps[checkSchema'.schema] # {}
      /\ (checkPc = "schema" /\ checkPc' # "schema" /\ open'
          /\ (checkSchema'.o # "ok" \/ NumberProps[checkSchema'.schema] = {}))
         => checkPc' = "notfound" ]_vars

\* a create in flight whose own schema fetch returned another schema than
\* the one the duplicate check of the same popup fetched
C18_Witness ==
  \E i \in Saves :
    /\ savePc[i] = "post"
    /\ checkSchema = SchemaSeen("ok", SchemaFull)
    /\ saveSeen = SchemaSeen("ok", SchemaNoNumber)
    /\ saveLocal[i].title = <<"T","a","s","k">>
    /\ saveLocal[i].num = 0

\* the token format of the credential contract: one of the two prefixes
RecognizedToken(token) ==
  \E prefix \in { <<"s","e","c","r","e","t","_">>, <<"n","t","n","_">> } :
    /\ Len(token) >= Len(prefix)
    /\ \A i \in 1..Len(prefix) : token[i] = prefix[i]
\* the identifier format of the credential contract: once the hyphens are
\* taken out, exactly 32 hexadecimal characters
RecognizedDatabaseId(databaseId) ==
  LET kept == { i \in 1..Len(databaseId) : databaseId[i] # "-" }
  IN /\ Cardinality(kept) = 32
     /\ \A i \in kept : databaseId[i] \in Hex

(* C19: a run of saveSettings on filled fields rejects the token exactly   *)
(* when it starts with neither "secret_" nor "ntn_", and with a token it   *)
(* accepts rejects the database id exactly when the id, its hyphens        *)
(* stripped, is not 32 hexadecimal characters; the stored credentials      *)
(* change only when both are accepted, then to the two values, and a       *)
(* rejected input leaves them as they were.                                *)
C19_SaveSettingsFormat ==
  [][ unitCall'.op = "saveSettings"
      => LET token == trim(unitCall.token)
             databaseId == trim(unitCall.databaseId)
             filled == token # <<>> /\ databaseId # <<>>
             accepted == /\ filled
                         /\ RecognizedToken(token)
                         /\ RecognizedDatabaseId(databaseId)
         IN /\ filled =>
                 /\ unitRet'.status = "badToken" <=> ~RecognizedToken(token)
                 /\ RecognizedToken(token) =>
                      ( unitRet'.status = "badDatabaseId"
                          <=> ~RecognizedDatabaseId(databaseId) )
            /\ unitPut' # unitPut => accepted
            /\ ~accepted => unitPut' = unitPut
            /\ unitRet'.status = "saved" =>
                 unitPut' = [notionToken |-> token, databaseId |-> databaseId] ]_vars

(* C20: every request the settings page has sent to the remote API carries *)
(* a token with a recognized prefix and a database id of 32 hexadecimal    *)
(* characters.                                                             *)
C20_NoMalformedRequest ==
  \A r \in unitRet.requests :
    /\ RecognizedToken(r.token)
    /\ RecognizedDatabaseId(r.databaseId)

\* the number each part of TimeParts reads as (-1: not a number)
PartValue ==
  ( <<>> :> -1 ) @@ ( <<"0">> :> 0 ) @@ ( <<"0","0">> :> 0 ) @@ ( <<"1">> :> 1 )
  @@ ( <<"3","0">> :> 30 ) @@ ( <<"4","5">> :> 45 ) @@ ( <<"5","9">> :> 59 )
  @@ ( <<"6","0">> :> 60 ) @@ ( <<"9","0">> :> 90 ) @@ ( <<"1","a">> :> -1 )
  @@ ( <<" ","7">> :> 7 )
\* the numbers the parts of the applied input read as
PartsRead == [i \in 1..Len(unitCall.parts) |-> PartValue[unitCall.parts[i]]]
AllNumbers == \A i \in 1..Len(PartsRead) : PartsRead[i] >= 0
\* the field was empty or blank
BlankInput == Len(PartsRead) = 1 /\ unitCall.parts[1] = <<>>

(* C25: applyManualTimeInput on a two-part input MM:SS whose minutes       *)
(* exceed 59 reports the input invalid and leaves the elapsed time as it   *)
(* was.                                                                    *)
C25_MinutesOver59Rejected ==
  ( /\ unitCall.op = "applyManualTimeInput"
    /\ Len(PartsRead) = 2
    /\ AllNumbers
    /\ PartsRead[1] > 59 )
  => /\ unitRet.error
     /\ unitRet.ms = Null
     /\ unitRet.elapsedTime = OldElapsed

(* C26: an accepted manual time input yields                               *)
(* (hours*3600 + minutes*60 + seconds)*1000 ms with the parts read from    *)
(* the right (seconds, minutes, hours); a three-part input of numbers is   *)
(* accepted exactly when minutes and seconds are at most 59, a one-part    *)
(* number of any size is accepted as seconds; an input that is empty, has  *)
(* more than three parts or has a part that is not a number is rejected.   *)
C26_ParseFormula ==
  unitCall.op = "applyManualTimeInput"
  => LET n == Len(PartsRead)
         seconds == PartsRead[n]
         minutes == IF n >= 2 THEN PartsRead[n - 1] ELSE 0
         hours == IF n >= 3 THEN PartsRead[n - 2] ELSE 0
         accepted == unitRet.ms # Null
     IN /\ accepted =>
             /\ unitRet.ms = (hours * 3600 + minutes * 60 + seconds) * 1000
             /\ unitRet.elapsedTime = unitRet.ms
             /\ ~unitRet.error
        /\ (n = 3 /\ AllNumbers) => (accepted <=> (minutes <= 59 /\ seconds <= 59))
        /\ (n = 1 /\ AllNumbers) => accepted
        /\ (BlankInput \/ n > 3 \/ ~AllNumbers) =>
             /\ ~accepted
             /\ unitRet.error
             /\ unitRet.elapsedTime = OldElapsed

\* "1:30:00" was applied and gave 5400000 ms
C26_Witness ==
  /\ unitCall.op = "applyManualTimeInput"
  /\ unitCall.value = <<"1",":","3","0",":","0","0">>
  /\ unitRet.ms = 5400000
  /\ unitRet.elapsedTime = 5400000

\* the persisted timer state was stored with the url the active tab shows
StoredForTab ==
  /\ unitPut # NoTimerState
  /\ unitCall.tabUrl \in TimerUrls
  /\ unitPut.url = unitCall.tabUrl

(* C27: when loadTimerState runs on a reopened popup, the persisted state  *)
(* is applied exactly when it was stored with the url the active tab       *)
(* shows: then the timer takes the stored elapsed time and runs if the     *)
(* stored timer ran; otherwise the timer and the persisted state are left  *)
(* as they were, and a timer nobody has touched since the popup opened is  *)
(* at zero and not running.                                                *)
C27_ResumeOnSameUrl ==
  [][ unitCall'.op = "loadTimerState"
      => /\ StoredForTab =>
              /\ unitRet'.elapsedTime = unitPut.elapsedTime
              /\ unitPut.isRunning => unitRet'.isRunning
              /\ unitRet'.isRunning => unitRet'.startTime = now - unitPut.elapsedTime
                                       \/ unitRet.isRunning
         /\ ~StoredForTab =>
              /\ unitRet' = unitRet
              /\ unitPut' = unitPut
              /\ ~unitCall.touched => unitRet' = TimerZero ]_vars

\* a popup reopened on the url of a running timer paused at no time: the
\* timer runs again from the stored elapsed time
C27_Witness ==
  /\ unitCall.op = "loadTimerState"
  /\ ~unitCall.touched
  /\ unitRet.isRunning
  /\ unitRet.elapsedTime = unitPut.elapsedTime
  /\ unitRet.elapsedTime > 0
  /\ unitPut.url = unitCall.tabUrl

\* a popup reopened on another url than the stored one: the timer is at zero
C27_WitnessOther ==
  /\ unitCall.op = "loadTimerState"
  /\ unitPut # NoTimerState
  /\ unitPut.url = "u1"
  /\ unitPut.elapsedTime > 0
  /\ unitCall.tabUrl = "u2"
  /\ unitRet = TimerZero

\* the offsets in pixels the style values stand for
PxValue == [v \in {"", "0px", "10px", "40px"} |->
              IF v = "10px" THEN 10 ELSE IF v = "40px" THEN 40 ELSE 0]
\* the element at DOM position a comes before the one at b by vertical
\* offset, then horizontal offset, then DOM position
LineBefore(elements, a, b) ==
  LET ta == PxValue[elements[a].top]   tb == PxValue[elements[b].top]
      la == PxValue[elements[a].left]  lb == PxValue[elements[b].left]
  IN \/ ta < tb
     \/ ta = tb /\ la < lb
     \/ ta = tb /\ la = lb /\ a < b
DistinctOffsets(elements) ==
  \A a, b \in 1..Len(elements) :
    a # b => \/ PxValue[elements[a].top] # PxValue[elements[b].top]
             \/ PxValue[elements[a].left] # PxValue[elements[b].left]
LinePermutations(n) == { q \in [1..n -> 1..n] : \A a, b \in 1..n : a # b => q[a] # q[b] }

(* C29: extractCodeFromDom orders the visual lines by vertical offset,     *)
(* then horizontal offset, then DOM index (so lines with equal offsets     *)
(* keep their DOM order) and joins their texts with newlines; when the     *)
(* (top, left) pairs are pairwise distinct every permutation of the input  *)
(* lines gives the same code.                                              *)
C29_LineOrder ==
  unitCall.op = "extractCodeFromDom"
  => LET elements == unitCall.elements
         n == Len(elements)
         order == unitRet.order
     IN /\ Len(order) = n
        /\ \A a \in 1..n : \E k \in 1..n : order[k] = a - 1
        /\ \A k \in 1..(n - 1) : LineBefore(elements, order[k] + 1, order[k + 1] + 1)
        /\ (\A a \in 1..n : elements[a].text # <<"nbsp">>)
           => /\ Len(unitRet.code) = IF n = 0 THEN 0 ELSE 2 * n - 1
              /\ \A k \in 1..n : unitRet.code[2 * k - 1] = elements[order[k] + 1].text[1]
              /\ \A k \in 1..(n - 1) : unitRet.code[2 * k] = "\n"
        /\ DistinctOffsets(elements)
           => \A q \in LinePermutations(n) :
                extractCodeFromDom([i \in 1..n |-> elements[q[i]]]).code = unitRet.code

\* the lines {40,0,"b"}, {0,0,"a"}, {40,10,"c"} gave "a\nb\nc"
C29_Witness ==
  /\ unitCall.op = "extractCodeFromDom"
  /\ unitCall.elements = << [top |-> "40px", left |-> "0px", text |-> <<"b">>],
                            [top |-> "0px", left |-> "0px", text |-> <<"a">>],
                            [top |-> "40px", left |-> "10px", text |-> <<"c">>] >>
  /\ unitRet.code = << "a", "\n", "b", "\n", "c" >>

\* two lines with equal offsets kept their DOM order behind a later line
\* that lies above them
C29_WitnessTie ==
  /\ unitCall.op = "extractCodeFromDom"
  /\ unitCall.elements = << [top |-> "40px", left |-> "0px", text |-> <<"b">>],
                            [top |-> "40px", left |-> "0px", text |-> <<"a">>],
                            [top |-> "", left |-> "0px", text |-> <<"c">>] >>
  /\ unitRet.order = << 2, 0, 1 >>

\* the texts that look like code: at least 10 characters and a newline or a
\* keyword token
CodeLike == [t \in Texts |-> t \in {TextDef, TextLines}]
\* the objects of the searched value in breadth-first order: the value
\* itself, then its child objects
SearchedObjects ==
  << unitCall.obj >>
    \o [i \in 1..Len(SelectSeq(unitCall.obj, LAMBDA f : f.kind = "object")) |->
          SelectSeq(unitCall.obj, LAMBDA f : f.kind = "object")[i].fields]
\* the object has a string field named code that looks like code, and no
\* language tag or one that matches the requested language
HoldsMatchingCode(obj) ==
  /\ \E i \in 1..Len(obj) :
       obj[i].key = "code" /\ obj[i].kind = "string" /\ CodeLike[obj[i].str]
  /\ \A i \in 1..Len(obj) : obj[i].key = "language" => obj[i].str = TagPython

(* C30: findCodeInObject returns the code field of the first object in     *)
(* breadth-first order that has a string field named code which looks      *)
(* like code and whose language tag matches the requested language, and    *)
(* returns nothing when there is no such object; no other string is        *)
(* returned.                                                               *)
C30_OnlyMatchingCode ==
  unitCall.op = "findCodeInObject"
  => IF \E k \in 1..Len(SearchedObjects) : HoldsMatchingCode(SearchedObjects[k])
     THEN LET first == CHOOSE k \in 1..Len(SearchedObjects) :
                         /\ HoldsMatchingCode(SearchedObjects[k])
                         /\ \A j \in 1..(k - 1) : ~HoldsMatchingCode(SearchedObjects[j])
          IN unitRet.found = fieldOf(SearchedObjects[first], "code").str
     ELSE unitRet.found = <<>>

\* the pathnames of problem pages
ProblemPath == [p \in Paths |-> p \in {PathTwoSum, PathTwoSumNotes}]
\* the step in which the listener answers the request in flight
Answering == unitCall.pending # "none" /\ unitCall'.pending = "none"

(* C21: the listener answers every extraction request exactly once; on a   *)
(* page whose path has no "/problems/" the answer is {success: false,      *)
(* error} with no record, and the session cache is left as it was; on a    *)
(* problem page the answer is {success: true, data} with the record of     *)
(* that page.  The load listener writes nothing on a page that is no       *)
(* problem page either.                                                    *)
C21_ExtractionAnswer ==
  [][ /\ unitRet'.answers # unitRet.answers => Answering
      /\ unitRet'.answers <= unitCall'.asked
      /\ unitCall'.pending = "none" => unitRet'.answers = unitCall'.asked
      /\ Answering =>
           /\ unitRet'.answers = unitRet.answers + 1
           /\ ~ProblemPath[unitCall.pathname] =>
                /\ ~unitRet'.success
                /\ unitRet'.error = "Not on a LeetCode problem page"
                /\ unitRet'.data = NoExtract
                /\ unitPut' = unitPut
           /\ ProblemPath[unitCall.pathname] =>
                /\ unitRet'.success
                /\ unitRet'.error = "none"
                /\ unitRet'.data.url = unitCall.pathname
      /\ (unitCall'.op = "load" /\ ~ProblemPath[unitCall.pathname]) => unitPut' = unitPut
    ]_vars

\* a request on the problem set page was answered with a failure once, a
\* record of a problem page being cached
C21_Witness ==
  /\ unitCall.op = "settle"
  /\ unitCall.pathname = PathProblemSet
  /\ unitRet.answers = 1
  /\ ~unitRet.success
  /\ unitRet.data = NoExtract
  /\ unitPut # NoCached

(* C22: the answer of a request is built from the session cache only when  *)
(* the cached record's url is the current URL and the record is younger    *)
(* than 10 minutes; its code is the code extracted from the page now when  *)
(* includeCode is true and null when it is false, never the code stored    *)
(* with the cached record.                                                 *)
C22_CodeNeverFromCache ==
  [][ (Answering /\ ProblemPath[unitCall.pathname])
      => /\ unitRet'.data.fromCache =>
              /\ unitPut # NoCached
              /\ unitPut.url = unitCall.pathname
              /\ now - unitPut.timestamp < 10 * 60 * 1000
         /\ unitRet'.data.code =
              IF unitCall.pending = "code" THEN unitCall.dom ELSE <<>> ]_vars

\* the cache part of C22 alone
C22_ShortCircuitOnly ==
  [][ (Answering /\ ProblemPath[unitCall.pathname])
      => /\ unitRet'.data.fromCache <=>
              /\ unitPut # NoCached
              /\ unitPut.url = unitCall.pathname
              /\ now - unitPut.timestamp < 10 * 60 * 1000
         /\ unitCall.pending = "nocode" => unitRet'.data.code = <<>>
         /\ (unitCall.pending = "code" /\ unitCall.dom # <<>>)
            => unitRet'.data.code = unitCall.dom ]_vars

WrittenByLookup(n) ==
  /\ checkPc = "query" /\ checkPc' = "cachePut"
  /\ n = problemData
  /\ checkSeen'.o = "ok"
  /\ store'[n] = [pageId |-> checkSeen'.first, url |-> PageUrl(checkSeen'.first),
                  timestamp |-> now]
\* the step writes the entry of number n after a create that succeeded
WrittenByCreate(n) ==
  \E i \in Saves :
    /\ savePc[i] = "post" /\ savePc'[i] = "cachePut"
    /\ n = problemData
    /\ store'[n].timestamp = now
    /\ remote[store'[n].pageId].status = "unused"
    /\ remote'[store'[n].pageId].status = "live"
\* the step removes the expired entry of number n on a read
RemovedByExpiry(n) ==
  /\ checkPc = "cache" /\ checkPc' = "expire"
  /\ n = problemData
  /\ now - store[n].timestamp > CACHE_TTL
\* the step removes the entry of number n after the background check
RemovedByCheck(n) ==
  /\ valPc = "fetch" /\ valPc' = "remove"
  /\ n = problemData
\* the step is clearSettings of the settings page
ClearedAll == ~open /\ ~configured' /\ store' = EmptyStore

(* C24: the cache entry of a number is written only by a remote lookup     *)
(* that found a page and by a create that succeeded, with the time of the  *)
(* write as its timestamp, and is never rewritten otherwise; it is removed *)
(* only when a read finds it older than the TTL or when a background       *)
(* check found the record gone (the clearing of all data on the settings   *)
(* page set aside).                                                        *)
C24_EntryLifecycle ==
  [][ \A n \in Numbers :
        /\ (store'[n] # store[n] /\ store'[n] # NoEntry)
           => WrittenByLookup(n) \/ WrittenByCreate(n)
        /\ (store'[n] # store[n] /\ store'[n] = NoEntry)
           => \/ RemovedByExpiry(n)
              \/ RemovedByCheck(n) /\ remote[valPageId].status # "live"
              \/ ClearedAll ]_vars

\* C24 with the removal after any background check that did not see the
\* page, a failed fetch included
C24_EntryLifecycleAsCoded ==
  [][ \A n \in Numbers :
        /\ (store'[n] # store[n] /\ store'[n] # NoEntry)
           => WrittenByLookup(n) \/ WrittenByCreate(n)
        /\ (store'[n] # store[n] /\ store'[n] = NoEntry)
           => RemovedByExpiry(n) \/ RemovedByCheck(n) \/ ClearedAll ]_vars

\* the step creates no page and leaves the popup's page id, its page URL and
\* the cache alone
UpdateFrame ==
  /\ notionPageId' = notionPageId
  /\ notionPageUrl' = notionPageUrl
  /\ store' = store
  /\ \A p \in PageIds : remote[p].status = "unused" => remote'[p].status = "unused"
\* invocation i of saveProblem takes a step (the popup is not closed)
SaveStep(i) == open' /\ savePc'[i] # savePc[i]

(* C28: an invocation of saveProblem that finds notionPageId set when it   *)
(* tests it, after its read of the settings, takes the update path: it     *)
(* goes on to updateExistingPage with that page id, issues PATCH           *)
(* /pages/{id} at most once (after the schema fetch, and then returns),    *)
(* never POST /pages, and none of its steps changes notionPageId,          *)
(* notionPageUrl or the cache, whether the update succeeds or fails.       *)
C28_UpdatePathOnly ==
  [][ \A i \in Saves :
        /\ (savePc[i] = "settings" /\ SaveStep(i) /\ notionPageId # NoPage)
           => /\ UpdateFrame
              /\ \/ savePc'[i] = "idle" /\ saveResult' \in {"rejected", "unconfigured"}
                 \/ savePc'[i] = "updSchema" /\ saveLocal'[i].page = notionPageId
        /\ (savePc[i] = "updSchema" /\ SaveStep(i))
           => /\ UpdateFrame
              /\ \/ savePc'[i] = "idle" /\ saveResult' = "failed"
                 \/ savePc'[i] = "patch" /\ saveLocal'[i].page = saveLocal[i].page
        /\ (savePc[i] = "patch" /\ SaveStep(i))
           => /\ UpdateFrame
              /\ savePc'[i] = "idle"
              /\ saveResult' \in {"failed", "updated"} ]_vars

\* C28's case: an update of the page the popup holds has returned, and the
\* page id and the cache entry are still there
C28_Witness ==
  /\ saveResult = "updated"
  /\ notionPageId # NoPage
  /\ problemData \in Numbers
  /\ store[problemData] # NoEntry
  /\ store[problemData].pageId = notionPageId

\* C28 as stated, for an invocation that was called while notionPageId was
\* set: none of its steps enters the create path or changes notionPageId,
\* notionPageUrl or the cache
C28_FoundAtCall ==
  [][ \A i \in Saves :
        (saveLocal[i].found /\ SaveStep(i))
        => /\ UpdateFrame
           /\ savePc'[i] \in {"updSchema", "patch", "idle"} ]_vars

\* invocation i of saveProblem issues POST /pages in this step
PostIssued(i) == savePc[i] = "schema" /\ savePc'[i] = "post"

(* C32: within one popup session at most one POST /pages is issued for the *)
(* problem, also when a save was invoked while the duplicate check was in  *)
(* flight or while another save was running: no invocation issues POST     *)
(* /pages after a save of the session has created a page, or while         *)
(* another invocation has its POST in flight or answered with a page.      *)
C32_OnePostPerSession ==
  [][ \A i \in Saves :
        PostIssued(i)
        => /\ saveResult # "created"
           /\ \A j \in Saves \ {i} : savePc[j] \notin {"post", "cachePut"} ]_vars

(* C33: a background verification that was answered, for a page that is   *)
(* gone, that the page is absent removes only                              *)
(* a cache entry that holds the page id it was started for, and clears     *)
(* notionPageId only while it is that page id: an entry or a page id       *)
(* written by a create that succeeded after the verification started is    *)
(* left alone.                                                             *)
C33_ClearsOnlyItsPage ==
  [][ /\ (valPc = "fetch" /\ valPc' = "remove" /\ remote[valPageId].status # "live"
            /\ valSeen' # "reject")
         => \A n \in Numbers :
              store'[n] # store[n] => store[n].pageId = valPageId
      /\ (valPc = "remove" /\ valPc' = "evicted" /\ remote[valPageId].status # "live"
            /\ valSeen # "reject")
         => (notionPageId' # notionPageId => notionPageId = valPageId) ]_vars

\* where a duplicate check stands once it has returned, by outcome
CheckFound == {"hit", "found"}
CheckNotFound == {"notfound", "caught", "unconfigured", "threw"}
CheckUnknown == {"unknown"}
CheckSettled == CheckFound \cup CheckNotFound \cup CheckUnknown
\* the duplicate check is awaiting one of its calls
CheckRunning == checkPc \in {"settings", "cache", "expire", "schema", "query", "cachePut"}
\* the background validation is awaiting one of its calls
ValidationRunning == valPc \in {"fetch", "remove"}

Creates(i, p) ==
  /\ savePc[i] = "post" /\ SaveStep(i)
  /\ remote[p].status = "unused" /\ remote'[p].status = "live"

(* C35: for a record without a problem number, the step in which a create  *)
(* succeeds sets notionPageId and notionPageUrl to the created page and    *)
(* writes nothing to the cache; notionPageId then stays set until the      *)
(* popup is closed; and a save invoked while it is set goes through the    *)
(* update path only: it never issues POST /pages and creates no page.      *)
C35_NoNumberCreate ==
  [][ problemData = 0 =>
        /\ \A i \in Saves, p \in PageIds :
             Creates(i, p)
             => /\ notionPageId' = p
                /\ notionPageUrl' = PageUrl(p)
                /\ store' = store
                /\ savePc'[i] = "idle" /\ saveResult' = "created"
        /\ (notionPageId # NoPage /\ open') => notionPageId' # NoPage
        /\ \A i \in Saves :
             (saveLocal[i].found /\ SaveStep(i))
             => /\ savePc'[i] \in {"updSchema", "patch", "idle"}
                /\ \A p \in PageIds :
                     remote[p].status = "unused" => remote'[p].status = "unused"
                /\ store' = store ]_vars

\* C35's case: a record without a number was created in this session, no
\* cache entry exists, and a second save has returned from the update path
C35_Witness ==
  /\ problemData = 0
  /\ saveResult = "updated"
  /\ notionPageId # NoPage
  /\ remote[notionPageId].status = "live"
  /\ store = EmptyStore

(* C36: in a document the content script has been injected into, however   *)
(* often, exactly one message listener and one load handler are            *)
(* registered, and an extraction request gets one response: one once all   *)
(* listeners have answered, never more.                                    *)
C36_InjectedOnce ==
  /\ unitCall.here >= 1 => (unitPut.listeners = 1 /\ unitPut.loadHandlers = 1)
  /\ unitCall.here = 0 => (unitPut.listeners = 0 /\ unitPut.loadHandlers = 0)
  /\ unitRet.responses <= 1
  /\ (unitCall.action = "extractProblemData" /\ unitRet.waiting = 0)
       => unitRet.responses = 1

\* C36's case: the script was injected three times into one document and a
\* request for extraction has been answered
C36_Witness ==
  /\ unitCall.here = MaxInjections
  /\ unitCall.action = "extractProblemData"
  /\ unitRet.waiting = 0
  /\ unitRet.responses = 1

(* C31: the difficulty extractDifficulty returns is one of Easy, Medium,    *)
(* Hard, Unknown, and the list extractTags returns holds no value twice,   *)
(* whether the DOM or the scripts gave them.                               *)
C31_DifficultyAndTags ==
  /\ (unitRet.done /\ unitCall.op = "extractDifficulty")
       => unitRet.value \in { <<"E","a","s","y">>, <<"M","e","d","i","u","m">>,
                              <<"H","a","r","d">>,
                              <<"U","n","k","n","o","w","n">> }
  /\ (unitRet.done /\ unitCall.op = "extractTags")
       => \A j, k \in 1..Len(unitRet.value) :
            unitRet.value[j] = unitRet.value[k] => j = k

\* C31 for what the DOM gave: a difficulty element that names a difficulty,
\* or a selector with a tag element
C31_FromDom ==
  /\ (unitRet.done /\ unitCall.op = "extractDifficulty"
        /\ \E k \in 1..Len(unitCall.elements) :
             unitCall.elements[k] \in { <<"E","a","s","y">>,
                                        <<"M","E","D","I","U","M",".">>,
                                        <<"kun", "nan">> })
       => unitRet.value \in { <<"E","a","s","y">>, <<"M","e","d","i","u","m">>,
                              <<"H","a","r","d">> }
  /\ (unitRet.done /\ unitCall.op = "extractTags"
        /\ \E s \in 1..2 : \E k \in 1..Len(unitCall.elements[s]) :
             unitCall.elements[s][k] # <<" ">>)
       => \A j, k \in 1..Len(unitRet.value) :
            unitRet.value[j] = unitRet.value[k] => j = k

====
